---- MODULE Spec2Model ----
(***************************************************************************)
(* State-machine model of the image-to-particles morph/physics system.     *)
(*                                                                         *)
(* Two programs of the repository are modelled over one set of variables:  *)
(*   Spec     the Framer component: FramerImageParticleEffect (host        *)
(*            wrapper) driving ImageParticleEffect of src/Framer.tsx;      *)
(*   SpecApp  the stand-alone application: App of src/App.tsx driving      *)
(*            ImageParticleEffect of src/components/ImageParticleEffect.tsx*)
(*                                                                         *)
(* Numbers.  JavaScript doubles are modelled in fixed point: factors,      *)
(* progress values, colour channels and vibrancy are integers in           *)
(* thousandths (One = 1.0); positions and velocities are integer world     *)
(* units; every product is divided back with truncation toward zero.       *)
(* Times are integer milliseconds (performance.now()).                     *)
(***************************************************************************)
EXTENDS Integers, Sequences, FiniteSets, TLC

VARIABLES
    now,                          \* performance.now(), ms
    particlesRef,                 \* particlesRef.current: Seq of Particle
    instancedMeshRef,             \* instancedMeshRef.current !== null
    targetParticleDataRef,        \* [null, data]: null or the sampled target points
    morphStateRef,                \* [isMorphing, startTime, direction]
    mouseInteractionStateRef,     \* "none" | "bursting" | "attracting"
    mouseInteractionStartTimeRef,
    mouse,                        \* pointer, as the world position animate() derives from it
    animationFrameIdRef,          \* TRUE while a frame callback of animate is pending
    sourceImageUrl,               \* props of the core component
    targetImageUrl,
    morphState,
    morphDirection,
    vibrancy,                     \* props.appearance.vibrancy (= targetPropsRef.current)
    animatedVibrancy,             \* animatedPropsRef.current.appearance.vibrancy
    prevMorphState,               \* FramerImageParticleEffect state
    isMorphing,                   \* App state
    currentImageUrl,              \* App state
    pending,                      \* image loads in flight, each with the closure of its effect
    events,                       \* history: morphs started by the trigger effect, onMorphComplete calls
    thrown,                       \* an effect has thrown (uncaught TypeError)
    inputCount,                   \* number of host prop changes and pointer events so far
    enablePushForce,              \* props.enablePushForce (= targetPropsRef.current)
    enableCollisions,             \* props.enableCollisions
    listeners,                    \* window listeners of the setup effect that are registered
    rendererRef,                  \* rendererRef.current !== null
    setupEffect,                  \* "active" | "cleaned" | "unmounted": the setup effect
    force,                        \* animatedPropsRef.current.force: [returnStrength, damping]
    frameRequests                 \* callbacks requested with requestAnimationFrame and not yet run

vars == <<now, particlesRef, instancedMeshRef, targetParticleDataRef, morphStateRef,
          mouseInteractionStateRef, mouseInteractionStartTimeRef, mouse,
          animationFrameIdRef, sourceImageUrl, targetImageUrl, morphState,
          morphDirection, vibrancy, animatedVibrancy, prevMorphState, isMorphing,
          currentImageUrl, pending, events, thrown, inputCount, enablePushForce,
          enableCollisions, listeners, rendererRef, setupEffect, force, frameRequests>>

\* the state of the setup effect, the two boolean props and the force props
setupVars == <<enablePushForce, enableCollisions, listeners, rendererRef, setupEffect, force>>

-----------------------------------------------------------------------------
(* Bounds of the model *)

\* the clock stops here: no frame runs later than MaxTime
MaxTime == 5000

\* the longer horizon of the round-trip behaviours: two morphs of 4000 ms
MaxRoundTripTime == 10000

\* host prop changes (morphState, vibrancy, images) and pointer events in one behaviour
MaxInputs == 2

\* image loads in flight at once
MaxPending == 3

\* the horizon of the behaviours that follow the pointer at a finer time step
MaxPointerTime == 1200

-----------------------------------------------------------------------------
(* Fixed-point arithmetic *)

One == 1000

Abs(a) == IF a < 0 THEN -a ELSE a

Min(a, b) == IF a < b THEN a ELSE b

\* a / b truncated toward zero (b > 0)
TDiv(a, b) == IF a >= 0 THEN a \div b ELSE -((-a) \div b)

\* a * f for a factor f in thousandths
Mul(a, f) == TDiv(a * f, One)

RECURSIVE ISqrtBin(_, _, _)
ISqrtBin(n, lo, hi) ==
    IF lo >= hi THEN lo
    ELSE LET mid == (lo + hi + 1) \div 2
         IN  IF mid * mid <= n THEN ISqrtBin(n, mid, hi) ELSE ISqrtBin(n, lo, mid - 1)

\* Math.sqrt, rounded down
Sqrt(n) == IF n <= 0 THEN 0 ELSE ISqrtBin(n, 0, Min(n, 40000))

\* Math.sin(progress * Math.PI) for progress in [0, One], Bhaskara's rational
\* approximation: exact at 0, 1/2 and 1
SinPi(p) == LET q == p * (One - p) IN (16 * q) \div (5000 - (4 * q) \div One)

\* Math.floor(a / b) for b > 0
Floor(a, b) == a \div b

-----------------------------------------------------------------------------
(* THREE.Vector3 *)

Vec(x, y, z) == <<x, y, z>>

Zero3 == Vec(0, 0, 0)

VAdd(a, b) == <<a[1] + b[1], a[2] + b[2], a[3] + b[3]>>

VSub(a, b) == <<a[1] - b[1], a[2] - b[2], a[3] - b[3]>>

\* multiplyScalar by a factor in thousandths
VScale(a, f) == <<Mul(a[1], f), Mul(a[2], f), Mul(a[3], f)>>

\* multiplyScalar by the rational num / den
VMulDiv(a, num, den) == <<TDiv(a[1] * num, den), TDiv(a[2] * num, den), TDiv(a[3] * num, den)>>

VDot(a, b) == a[1] * b[1] + a[2] * b[2] + a[3] * b[3]

VCross(a, b) == <<a[2] * b[3] - a[3] * b[2], a[3] * b[1] - a[1] * b[3], a[1] * b[2] - a[2] * b[1]>>

distanceToSquared(a, b) == VDot(VSub(a, b), VSub(a, b))

VLength(a) == Sqrt(VDot(a, a))

\* Vector3.lerp / lerpVectors: v1 + (v2 - v1) * alpha
lerpVectors(v1, v2, alpha) == VAdd(v1, VScale(VSub(v2, v1), alpha))

\* Vector3.normalize, in thousandths; the zero vector stays zero
VNormalize(a) == LET len == VLength(a) IN IF len = 0 THEN Zero3 ELSE VMulDiv(a, One, len)

-----------------------------------------------------------------------------
(* THREE.Color, kept as hue and saturation (lightness is never changed) *)

Color(h, s) == [h |-> h, s |-> s]

\* Color.lerp: channel-wise
lerpColor(c1, c2, alpha) ==
    [h |-> c1.h + Mul(c2.h - c1.h, alpha), s |-> c1.s + Mul(c2.s - c1.s, alpha)]

applyVibrancy(color, vib) == [color EXCEPT !.s = Min(One, Mul(color.s, vib))]

easeInOutCubic(t) ==
    IF t < 500 THEN (4 * t * t * t) \div (One * One)
    ELSE One - ((2 * One - 2 * t) * (2 * One - 2 * t) * (2 * One - 2 * t)) \div (2 * One * One)

-----------------------------------------------------------------------------
(* Program constants *)

\* morphStateRef: duration, phaseOneDuration, phaseTwoDuration
duration == 4000

phaseOneDuration == 1300

phaseTwoDuration == 1300

phaseTwoEndTime == phaseOneDuration + phaseTwoDuration

mouseInteractionBurstDuration == 400

\* lerpFactor of the animated props, per frame (0.05)
lerpFactor == 50

\* lerp factors of the pointer override: 0.08 while bursting, 0.04 while attracting
burstLerpFactor == 80

attractLerpFactor == 40

\* swirl amplitude factor (0.3) and new THREE.Vector3(0.3, -0.4, 0.8).normalize()
swirlFactor == 300

swirlAxis == Vec(318, -424, 848)

\* restitution 0.5: impulseScalar * 0.5 = -(1 + 0.5) * velocityAlongNormal * 0.5
restitution == 500

\* burstRadius of the morph (300) and of the pointer press (150), sphereRadius of the press
morphBurstRadius == 300

mouseBurstRadius == 150

\* the force props, chosen inside the ranges of the property controls so that
\* integer arithmetic keeps them visible:
\* returnStrength 0.2, damping 0.8, pushRadius 60, pushStrength 5.0, particleSize 5
returnStrength == 200

damping == 800

pushRadius == 60

pushStrength == 5000

particleSize == 5

\* force of the props: the part of it the integrator reads
ForceProps == [returnStrength |-> returnStrength, damping |-> damping]

\* mouse = new THREE.Vector2(-1000, -1000): the pointer ray meets the plane z = 0 far
\* outside the view (distance scaled down to keep the squares in range)
mouseFarAway == Vec(-20000, -20000, 0)

-----------------------------------------------------------------------------
(* Sampled images: getImageParticleData(image, density, onComplete) hands over *)
(* one point per opaque pixel, position centred on the image, z = 0.          *)

Point(pos, col) == [position |-> pos, color |-> col]

ImageA == << Point(Vec(-20, 20, 0), Color(100, 400)),
             Point(Vec(20, 20, 0), Color(200, 600)),
             Point(Vec(0, -20, 0), Color(300, 900)) >>

ImageB == << Point(Vec(-40, 0, 0), Color(500, 500)),
             Point(Vec(40, 0, 0), Color(700, 800)) >>

\* a fully transparent image: no pixel passes alpha > 128
ImageE == << >>

ImageUrls == {"A", "B", "E"}

getImageParticleData(url) ==
    CASE url = "A" -> ImageA
      [] url = "B" -> ImageB
      [] OTHER -> ImageE

Vibrancies == {1200, 1500}

-----------------------------------------------------------------------------
(* Particles *)

\* the particle built by the INITIAL LOAD from sample number id (0-based)
NewParticle(data, id, vib) ==
    [ id |-> id,
      currentPosition |-> data.position,
      sourcePosition |-> data.position,
      targetPosition |-> data.position,
      velocity |-> Zero3,
      currentColor |-> applyVibrancy(data.color, vib),
      sourceColor |-> applyVibrancy(data.color, vib),
      targetColor |-> applyVibrancy(data.color, vib),
      sourceBaseColor |-> data.color,
      targetBaseColor |-> data.color,
      attractorPosition |-> data.position,
      burstPosition |-> Zero3,
      sphereTargetPosition |-> Zero3,
      mouseBurstPosition |-> Zero3 ]

SeedParticles(sourceData, vib) ==
    [k \in 1..Len(sourceData) |-> NewParticle(sourceData[k], k - 1, vib)]

\* particles past the data all take the last sample
WrapIndexClamp(i, numParticles) == IF i < numParticles THEN i ELSE numParticles - 1

\* the sample that particle i (0-based) takes when numParticles = min(particle
\* count, data length): data[i] in the first loop, data[i % numParticles] in the second
WrapIndex(i, numParticles) == IF i < numParticles THEN i ELSE i % numParticles

\* a source update that builds the particles anew from the new samples
UpdateSourceRoleReseed(ps, sourceData, vib) == SeedParticles(sourceData, vib)

\* UPDATE SOURCE IMAGE, both loops
UpdateSourceRole(ps, sourceData, vib) ==
    LET numParticles == Min(Len(ps), Len(sourceData))
    IN  [k \in 1..Len(ps) |->
            LET d == sourceData[WrapIndex(k - 1, numParticles) + 1]
            IN  [ps[k] EXCEPT !.sourcePosition = d.position,
                              !.sourceBaseColor = d.color,
                              !.sourceColor = applyVibrancy(d.color, vib)]]

\* a target update without its second loop: the particles past the data keep their
\* old target
UpdateTargetRoleFirstLoop(ps, targetData, vib) ==
    [k \in 1..Len(ps) |->
        IF k > Len(targetData) THEN ps[k]
        ELSE [ps[k] EXCEPT !.targetPosition = targetData[k].position,
                           !.targetBaseColor = targetData[k].color,
                           !.targetColor = applyVibrancy(targetData[k].color, vib)]]

\* UPDATE TARGET IMAGE, both loops (the same loops run in the morph trigger effect)
UpdateTargetRole(ps, targetData, vib) ==
    LET numParticles == Min(Len(ps), Len(targetData))
    IN  [k \in 1..Len(ps) |->
            LET d == targetData[WrapIndex(k - 1, numParticles) + 1]
            IN  [ps[k] EXCEPT !.targetPosition = d.position,
                              !.targetBaseColor = d.color,
                              !.targetColor = applyVibrancy(d.color, vib)]]

\* existingParticles.forEach: attractor and colour follow the role the field rests in
RestInSource(ps) ==
    [k \in 1..Len(ps) |-> [ps[k] EXCEPT !.attractorPosition = ps[k].sourcePosition,
                                        !.currentColor = ps[k].sourceColor]]

RestInTarget(ps) ==
    [k \in 1..Len(ps) |-> [ps[k] EXCEPT !.attractorPosition = ps[k].targetPosition,
                                        !.currentColor = ps[k].targetColor]]

\* a source update that applies the vibrancy to the role colour the particle holds,
\* without copying the sampled colour first
updateSourceNoCopy(ps, sourceData, vib, closureMorphState, morphing) ==
    LET updated == [k \in 1..Len(ps) |->
                       [UpdateSourceRole(ps, sourceData, vib)[k] EXCEPT
                           !.sourceColor = applyVibrancy(ps[k].sourceColor, vib)]]
    IN  IF closureMorphState = "source" /\ ~morphing THEN RestInSource(updated) ELSE updated

\* UPDATE SOURCE IMAGE: the loops, then the refresh of attractor and colour when the
\* morphState of the effect's closure is "source" and no morph is in progress
updateSource(ps, sourceData, vib, closureMorphState, morphing) ==
    LET updated == UpdateSourceRole(ps, sourceData, vib)
    IN  IF closureMorphState = "source" /\ ~morphing THEN RestInSource(updated) ELSE updated

\* UPDATE TARGET IMAGE: the loops, then the refresh when the morphState of the
\* effect's closure is "target" and no morph is in progress
updateTarget(ps, targetData, vib, closureMorphState, morphing) ==
    LET updated == UpdateTargetRole(ps, targetData, vib)
    IN  IF closureMorphState = "target" /\ ~morphing THEN RestInTarget(updated) ELSE updated

-----------------------------------------------------------------------------
(* animate(): the pieces of one frame *)

\* new THREE.Vector3().setFromSphericalCoords(180, phi, theta) with
\* phi = acos(-1 + 2i/N), theta = sqrt(N * PI) * phi, rounded; row N, column i + 1
fibonacciSphere ==
    << << Vec(0, -180, 0) >>,
       << Vec(0, -180, 0), Vec(-129, 0, -126) >>,
       << Vec(0, -180, 0), Vec(-69, -60, 155), Vec(-101, 60, -136) >>,
       << Vec(0, -180, 0), Vec(142, -90, 65), Vec(-118, 0, 136), Vec(-84, 90, -131) >> >>

spherePos(i, n) == fibonacciSphere[n][i + 1]

\* if (vibrancyChanged): both role colours are re-derived from the base colours; at
\* rest the current colour follows the role named by the morphState prop that the
\* closure of animate captured when the setup effect ran
VibrancyUpdate(ps, vib, morphing, closureMorphState) ==
    [k \in 1..Len(ps) |->
        LET sc == applyVibrancy(ps[k].sourceBaseColor, vib)
            tc == applyVibrancy(ps[k].targetBaseColor, vib)
        IN  [ps[k] EXCEPT !.sourceColor = sc,
                          !.targetColor = tc,
                          !.currentColor = IF morphing THEN ps[k].currentColor
                                           ELSE IF closureMorphState = "source" THEN sc ELSE tc]]

\* an override that adds the step to the velocity the particle had
PointerOverrideAccumulate(ps, mouseState, pos) ==
    [k \in 1..Len(ps) |->
        LET targetPosition == IF mouseState = "bursting" THEN ps[k].mouseBurstPosition
                              ELSE VAdd(pos, ps[k].sphereTargetPosition)
            factor == IF mouseState = "bursting" THEN burstLerpFactor ELSE attractLerpFactor
            newPosition == lerpVectors(ps[k].currentPosition, targetPosition, factor)
        IN  [ps[k] EXCEPT !.currentPosition = newPosition,
                          !.velocity = VAdd(ps[k].velocity,
                                            VSub(newPosition, ps[k].currentPosition))]]

\* if (mouseState !== "none"): the kinematic override of every particle
PointerOverride(ps, mouseState, pos) ==
    [k \in 1..Len(ps) |->
        LET targetPosition == IF mouseState = "bursting" THEN ps[k].mouseBurstPosition
                              ELSE VAdd(pos, ps[k].sphereTargetPosition)
            factor == IF mouseState = "bursting" THEN burstLerpFactor ELSE attractLerpFactor
            newPosition == lerpVectors(ps[k].currentPosition, targetPosition, factor)
        IN  [ps[k] EXCEPT !.currentPosition = newPosition,
                          !.velocity = VSub(newPosition, ps[k].currentPosition)]]

\* an override that turns to attracting as soon as the burst duration is reached
PointerStateAfterTickAtLeast(mouseState, interactionElapsedTime) ==
    IF mouseState = "bursting" /\ interactionElapsedTime >= mouseInteractionBurstDuration
    THEN "attracting" ELSE mouseState

\* the state the override leaves in mouseInteractionStateRef
PointerStateAfterTick(mouseState, interactionElapsedTime) ==
    IF mouseState = "bursting" /\ interactionElapsedTime > mouseInteractionBurstDuration
    THEN "attracting" ELSE mouseState

\* phase three: the way from the sphere to the arrival position, with the swirl
SwirlPosition(sphere, currentEndPos, progress) ==
    LET intermediatePos == lerpVectors(sphere, currentEndPos, progress)
        travelVector == VSub(currentEndPos, sphere)
        crossed == VNormalize(VMulDiv(VCross(travelVector, swirlAxis), 1, One))
        perpendicular == IF crossed = Zero3 THEN Vec(0, One, 0) ELSE crossed
        swirlAmplitude == Mul(Mul(VLength(travelVector), swirlFactor), SinPi(progress))
    IN  VAdd(intermediatePos, VScale(perpendicular, swirlAmplitude))

\* the attractor of particle i of n at elapsedTime < duration
MorphAttractor(p, i, n, elapsedTime, direction) ==
    LET currentStartPos == IF direction = "toTarget" THEN p.sourcePosition ELSE p.targetPosition
        currentEndPos == IF direction = "toTarget" THEN p.targetPosition ELSE p.sourcePosition
    IN  IF elapsedTime < phaseOneDuration
        THEN lerpVectors(currentStartPos, p.burstPosition,
                         easeInOutCubic(TDiv(elapsedTime * One, phaseOneDuration)))
        ELSE IF elapsedTime < phaseTwoEndTime
        THEN lerpVectors(p.burstPosition, spherePos(i, n),
                         easeInOutCubic(TDiv((elapsedTime - phaseOneDuration) * One, phaseTwoDuration)))
        ELSE SwirlPosition(spherePos(i, n), currentEndPos,
                           easeInOutCubic(TDiv((elapsedTime - phaseTwoEndTime) * One,
                                               duration - phaseTwoEndTime)))

\* else branch of the morph block: a morph in progress
MorphInProgress(ps, elapsedTime, direction) ==
    LET totalProgress == easeInOutCubic(TDiv(elapsedTime * One, duration))
    IN  [k \in 1..Len(ps) |->
            LET startColor == IF direction = "toTarget" THEN ps[k].sourceColor ELSE ps[k].targetColor
                endColor == IF direction = "toTarget" THEN ps[k].targetColor ELSE ps[k].sourceColor
            IN  [ps[k] EXCEPT !.currentColor = lerpColor(startColor, endColor, totalProgress),
                              !.attractorPosition =
                                  MorphAttractor(ps[k], k - 1, Len(ps), elapsedTime, direction)]]

\* a completion that leaves the last interpolated attractor and colour in place
SnapToArrivalKeep(ps, direction) == ps

\* if (elapsedTime >= duration): the forEach that snaps every particle to the arrival role
SnapToArrival(ps, direction) ==
    [k \in 1..Len(ps) |->
        [ps[k] EXCEPT !.attractorPosition = IF direction = "toTarget" THEN ps[k].targetPosition
                                            ELSE ps[k].sourcePosition,
                      !.currentColor = IF direction = "toTarget" THEN ps[k].targetColor
                                       ELSE ps[k].sourceColor]]

\* targetParticleDataRef.current as the trigger effect tests it: null, [] or points
TargetDataStatus ==
    IF targetParticleDataRef.null THEN "null"
    ELSE IF Len(targetParticleDataRef.data) = 0 THEN "empty" ELSE "loaded"

\* what onMorphComplete(direction) finds when it is called: the event put on the history
CompletionEvent(ps, ms, direction) ==
    [ kind |-> "done",
      dir |-> direction,
      request |-> FALSE,
      restart |-> FALSE,
      idle |-> ~ms.isMorphing,
      snapped |-> \A k \in 1..Len(ps) :
                     /\ ps[k].attractorPosition =
                            (IF direction = "toTarget" THEN ps[k].targetPosition ELSE ps[k].sourcePosition)
                     /\ ps[k].currentColor =
                            (IF direction = "toTarget" THEN ps[k].targetColor ELSE ps[k].sourceColor),
      attr |-> [k \in 1..Len(ps) |-> ps[k].attractorPosition],
      src |-> [k \in 1..Len(ps) |-> ps[k].sourcePosition],
      targetRole |-> [k \in 1..Len(ps) |-> ps[k].targetPosition],
      target |-> TargetDataStatus ]

\* a completion that calls onMorphComplete first and snaps afterwards
MorphCompletionCallbackFirst(ps, ms) ==
    [ particles |-> SnapToArrival(ps, ms.direction),
      morph |-> [ms EXCEPT !.isMorphing = FALSE],
      call |-> CompletionEvent(ps, ms, ms.direction) ]

\* the completion branch in statement order: snap, isMorphing = false, callback
MorphCompletion(ps, ms) ==
    LET snapped == SnapToArrival(ps, ms.direction)
        idleState == [ms EXCEPT !.isMorphing = FALSE]
    IN  [ particles |-> snapped,
          morph |-> idleState,
          call |-> CompletionEvent(snapped, idleState, ms.direction) ]

\* a morph block that completes only when elapsedTime exceeds the duration
MorphBlockStrict(ps, ms, t) ==
    IF ~ms.isMorphing THEN [particles |-> ps, morph |-> ms, calls |-> << >>]
    ELSE IF t - ms.startTime > duration
    THEN LET c == MorphCompletion(ps, ms)
         IN  [particles |-> c.particles, morph |-> c.morph, calls |-> << c.call >>]
    ELSE [particles |-> MorphInProgress(ps, t - ms.startTime, ms.direction),
          morph |-> ms, calls |-> << >>]

\* the morph block of a frame at time t: [particles, morph, calls]
MorphBlock(ps, ms, t) ==
    IF ~ms.isMorphing THEN [particles |-> ps, morph |-> ms, calls |-> << >>]
    ELSE IF t - ms.startTime >= duration
    THEN LET c == MorphCompletion(ps, ms)
         IN  [particles |-> c.particles, morph |-> c.morph, calls |-> << c.call >>]
    ELSE [particles |-> MorphInProgress(ps, t - ms.startTime, ms.direction),
          morph |-> ms, calls |-> << >>]

\* getCellKey, per axis
CellOf(v, gridCellSize) ==
    <<Floor(v[1], gridCellSize), Floor(v[2], gridCellSize), Floor(v[3], gridCellSize)>>

\* a query that looks only into the cell of the pointer
InSameCell(a, b, gridCellSize) == CellOf(a, gridCellSize) = CellOf(b, gridCellSize)

\* the cell of a lies in the 3x3x3 block around the cell of b
InNeighbourCell(a, b, gridCellSize) ==
    LET ca == CellOf(a, gridCellSize)
        cb == CellOf(b, gridCellSize)
    IN  \A d \in 1..3 : Abs(ca[d] - cb[d]) <= 1

\* a push that sends a particle lying on the pointer away along the x axis
PushedVelocityFromPointer(p, pos) ==
    LET distanceSq == distanceToSquared(p.currentPosition, pos)
        distance == Sqrt(distanceSq)
    IN  IF distanceSq = 0 THEN VAdd(p.velocity, Vec(pushStrength \div One, 0, 0))
        ELSE IF distanceSq < pushRadius * pushRadius
        THEN VAdd(p.velocity,
                  VMulDiv(VSub(p.currentPosition, pos),
                          Mul(pushRadius - distance, pushStrength), pushRadius * distance))
        ELSE p.velocity

\* the push of one particle found in a cell around the pointer
PushedVelocity(p, pos) ==
    LET distanceSq == distanceToSquared(p.currentPosition, pos)
        distance == Sqrt(distanceSq)
    IN  IF distanceSq > 0 /\ distanceSq < pushRadius * pushRadius
        THEN VAdd(p.velocity,
                  VMulDiv(VSub(p.currentPosition, pos),
                          Mul(pushRadius - distance, pushStrength), pushRadius * distance))
        ELSE p.velocity

\* the push block: grid of cells of size pushRadius, the 27 cells around the pointer
PushForce(ps, pos) ==
    [k \in 1..Len(ps) |->
        IF InNeighbourCell(ps[k].currentPosition, pos, pushRadius)
        THEN [ps[k] EXCEPT !.velocity = PushedVelocity(ps[k], pos)]
        ELSE ps[k]]

\* an integration that leaves out p.velocity.multiplyScalar(damping)
IntegrateUndamped(ps, strength, damp) ==
    [k \in 1..Len(ps) |->
        LET returnForce == VScale(VSub(ps[k].attractorPosition, ps[k].currentPosition), strength)
            v == VAdd(ps[k].velocity, returnForce)
        IN  [ps[k] EXCEPT !.velocity = v, !.currentPosition = VAdd(ps[k].currentPosition, v)]]

\* first loop: return force, damping, integration
Integrate(ps, strength, damp) ==
    [k \in 1..Len(ps) |->
        LET returnForce == VScale(VSub(ps[k].attractorPosition, ps[k].currentPosition), strength)
            v == VScale(VAdd(ps[k].velocity, returnForce), damp)
        IN  [ps[k] EXCEPT !.velocity = v, !.currentPosition = VAdd(ps[k].currentPosition, v)]]

-----------------------------------------------------------------------------
(* handleCollisions(particles, particleSize) *)

collisionDist(size) == size * 2

\* a pair resolution that moves and pushes p1 alone, by twice the amounts
ResolvePairOneSided(ps, i, j, size) ==
    LET p1 == ps[i]
        p2 == ps[j]
        distanceSq == distanceToSquared(p1.currentPosition, p2.currentPosition)
    IN  IF ~(distanceSq > 0 /\ distanceSq < collisionDist(size) * collisionDist(size)) THEN ps
        ELSE
        LET distance == Sqrt(distanceSq)
            diff == VSub(p1.currentPosition, p2.currentPosition)
            correction == VMulDiv(diff, collisionDist(size) - distance, distance)
            relativeVelocity == VSub(p1.velocity, p2.velocity)
            velocityAlongNormal == TDiv(VDot(relativeVelocity, diff), distance)
            impulse == IF velocityAlongNormal > 0 THEN Zero3
                       ELSE VMulDiv(diff, -((One + restitution) * velocityAlongNormal),
                                    One * distance)
        IN  [ps EXCEPT ![i].currentPosition = VAdd(p1.currentPosition, correction),
                       ![i].velocity = VAdd(p1.velocity, impulse)]

\* a pair resolution that applies the impulse to a separating pair as well
ResolvePairAlwaysImpulse(ps, i, j, size) ==
    LET p1 == ps[i]
        p2 == ps[j]
        distanceSq == distanceToSquared(p1.currentPosition, p2.currentPosition)
    IN  IF ~(distanceSq > 0 /\ distanceSq < collisionDist(size) * collisionDist(size)) THEN ps
        ELSE
        LET distance == Sqrt(distanceSq)
            diff == VSub(p1.currentPosition, p2.currentPosition)
            correction == VMulDiv(diff, collisionDist(size) - distance, 2 * distance)
            relativeVelocity == VSub(p1.velocity, p2.velocity)
            velocityAlongNormal == TDiv(VDot(relativeVelocity, diff), distance)
            impulse == VMulDiv(diff, -((One + restitution) * velocityAlongNormal),
                               2 * One * distance)
        IN  [ps EXCEPT ![i].currentPosition = VAdd(p1.currentPosition, correction),
                       ![j].currentPosition = VSub(p2.currentPosition, correction),
                       ![i].velocity = VAdd(p1.velocity, impulse),
                       ![j].velocity = VSub(p2.velocity, impulse)]

\* a pair resolution with the correction applied the wrong way round
ResolvePairInward(ps, i, j, size) ==
    LET p1 == ps[i]
        p2 == ps[j]
        distanceSq == distanceToSquared(p1.currentPosition, p2.currentPosition)
    IN  IF ~(distanceSq > 0 /\ distanceSq < collisionDist(size) * collisionDist(size)) THEN ps
        ELSE LET distance == Sqrt(distanceSq)
                 diff == VSub(p1.currentPosition, p2.currentPosition)
                 correction == VMulDiv(diff, collisionDist(size) - distance, 2 * distance)
             IN  [ps EXCEPT ![i].currentPosition = VSub(p1.currentPosition, correction),
                            ![j].currentPosition = VAdd(p2.currentPosition, correction)]

\* the body of the innermost loop for the pair (p1, p2) = (ps[i], ps[j])
ResolvePair(ps, i, j, size) ==
    LET p1 == ps[i]
        p2 == ps[j]
        distanceSq == distanceToSquared(p1.currentPosition, p2.currentPosition)
    IN  IF ~(distanceSq > 0 /\ distanceSq < collisionDist(size) * collisionDist(size)) THEN ps
        ELSE
        LET distance == Sqrt(distanceSq)
            diff == VSub(p1.currentPosition, p2.currentPosition)
            \* collisionNormal * overlap, overlap = (collisionDist - distance) * 0.5
            correction == VMulDiv(diff, collisionDist(size) - distance, 2 * distance)
            relativeVelocity == VSub(p1.velocity, p2.velocity)
            velocityAlongNormal == TDiv(VDot(relativeVelocity, diff), distance)
            \* collisionNormal * (impulseScalar * 0.5)
            impulse == IF velocityAlongNormal > 0 THEN Zero3
                       ELSE VMulDiv(diff, -((One + restitution) * velocityAlongNormal),
                                    2 * One * distance)
        IN  [ps EXCEPT ![i].currentPosition = VAdd(p1.currentPosition, correction),
                       ![j].currentPosition = VSub(p2.currentPosition, correction),
                       ![i].velocity = VAdd(p1.velocity, impulse),
                       ![j].velocity = VSub(p2.velocity, impulse)]

\* place of particle j in the walk of p1 over dx, dy, dz and the members of each cell
VisitRank(keys, j, c1, n) ==
    (((keys[j][1] - c1[1] + 1) * 9 + (keys[j][2] - c1[2] + 1) * 3 + (keys[j][3] - c1[3] + 1))
        * (n + 1)) + j

\* one pair that got past `if (p1.id >= p2.id) continue`: the squared distance the
\* loop body found and the one it left, and whether it wrote to one of the two
ExaminedPair(before, after, i, j) ==
    [ p1 |-> i, p2 |-> j,
      before |-> distanceToSquared(before[i].currentPosition, before[j].currentPosition),
      after |-> distanceToSquared(after[i].currentPosition, after[j].currentPosition),
      moved |-> before[i] # after[i] \/ before[j] # after[j],
      from |-> << before[i], before[j] >>,
      to |-> << after[i], after[j] >>,
      others |-> \A k \in 1..Len(before) : k \in {i, j} \/ after[k] = before[k] ]

\* a run of handleCollisions: the particles, the pairs examined so far, and the
\* positions each iteration of the outer loop started from
RECURSIVE ResolveCell(_, _, _, _, _, _)
ResolveCell(run, i, cands, keys, c1, size) ==
    IF cands = {} THEN run
    ELSE LET n == Len(run.particles)
             j == CHOOSE a \in cands :
                    \A b \in cands : VisitRank(keys, a, c1, n) <= VisitRank(keys, b, c1, n)
             resolved == ResolvePair(run.particles, i, j, size)
         IN  ResolveCell([run EXCEPT !.particles = resolved,
                                     !.log = Append(run.log,
                                                    ExaminedPair(run.particles, resolved, i, j))],
                         i, cands \ {j}, keys, c1, size)

RECURSIVE CollisionPass(_, _, _, _)
CollisionPass(run, i, keys, size) ==
    LET ps == run.particles
    IN  IF i > Len(ps) THEN run
        ELSE LET c1 == CellOf(ps[i].currentPosition, collisionDist(size))
                 \* p2 in one of the 27 cells around p1, and not (p1.id >= p2.id)
                 cands == {j \in (i + 1)..Len(ps) :
                              \A d \in 1..3 : Abs(keys[j][d] - c1[d]) <= 1}
                 started == [run EXCEPT !.starts =
                                Append(run.starts,
                                       [k \in 1..Len(ps) |-> ps[k].currentPosition])]
             IN  CollisionPass(ResolveCell(started, i, cands, keys, c1, size),
                               i + 1, keys, size)

CollisionRun(ps, size) ==
    IF Len(ps) < 2 \/ size <= 0 THEN [particles |-> ps, log |-> << >>, starts |-> << >>]
    ELSE CollisionPass([particles |-> ps, log |-> << >>, starts |-> << >>], 1,
                       [k \in 1..Len(ps) |-> CellOf(ps[k].currentPosition, collisionDist(size))],
                       size)

handleCollisions(ps, size) == CollisionRun(ps, size).particles

-----------------------------------------------------------------------------
(* animate() of src/Framer.tsx: one frame at time t, past the early-return guard *)

\* a frame that resolves the collisions before it integrates
ForceIntegratorCollideFirst(ps, pos) ==
    LET pushed == IF enablePushForce /\ pushRadius > 0 THEN PushForce(ps, pos) ELSE ps
        apart == IF enableCollisions THEN handleCollisions(pushed, particleSize) ELSE pushed
    IN  Integrate(apart, force.returnStrength, force.damping)

\* push, integration and collisions of a normal frame
ForceIntegrator(ps, pos) ==
    LET pushed == IF enablePushForce /\ pushRadius > 0 THEN PushForce(ps, pos) ELSE ps
        moved == Integrate(pushed, force.returnStrength, force.damping)
    IN  IF enableCollisions THEN handleCollisions(moved, particleSize) ELSE moved

\* the morphState that the closure of animate holds: the prop of the render in which
\* the setup effect ran (later renders return before redefining animate)
InitialMorphState == "source"

\* a frame whose pointer override does not return: the morph block and the forces
\* run on the overridden particles
AnimateFrameNoReturn(t) ==
    LET newVibrancy == animatedVibrancy + Mul(vibrancy - animatedVibrancy, lerpFactor)
        vibrancyChanged == Abs(newVibrancy - animatedVibrancy) > 1
        ps0 == IF vibrancyChanged
               THEN VibrancyUpdate(particlesRef, newVibrancy, morphStateRef.isMorphing,
                                   InitialMorphState)
               ELSE particlesRef
        mouseState == mouseInteractionStateRef
        ps1 == IF mouseState # "none" THEN PointerOverride(ps0, mouseState, mouse) ELSE ps0
        m == MorphBlock(ps1, morphStateRef, t)
    IN  [ particles |-> ForceIntegrator(m.particles, mouse),
          morph |-> m.morph,
          mouseState |-> PointerStateAfterTick(mouseState, t - mouseInteractionStartTimeRef),
          vibrancy |-> newVibrancy,
          calls |-> m.calls,
          colorUpload |-> vibrancyChanged \/ morphStateRef.isMorphing ]

\* [particles, morph, mouseState, vibrancy, calls] after the frame, and colorUpload:
\* the frame has reached `if (needsColorUpdate) instanceColor.needsUpdate = true` with
\* needsColorUpdate set (by the vibrancy block or by the morph block)
AnimateFrame(t) ==
    LET newVibrancy == animatedVibrancy + Mul(vibrancy - animatedVibrancy, lerpFactor)
        vibrancyChanged == Abs(newVibrancy - animatedVibrancy) > 1
        ps0 == IF vibrancyChanged
               THEN VibrancyUpdate(particlesRef, newVibrancy, morphStateRef.isMorphing,
                                   InitialMorphState)
               ELSE particlesRef
        mouseState == mouseInteractionStateRef
    IN  IF mouseState # "none"
        THEN \* pointer override, then return
             [ particles |-> PointerOverride(ps0, mouseState, mouse),
               morph |-> morphStateRef,
               mouseState |-> PointerStateAfterTick(mouseState, t - mouseInteractionStartTimeRef),
               vibrancy |-> newVibrancy,
               calls |-> << >>,
               colorUpload |-> FALSE ]
        ELSE LET m == MorphBlock(ps0, morphStateRef, t)
             IN  [ particles |-> ForceIntegrator(m.particles, mouse),
                   morph |-> m.morph,
                   mouseState |-> mouseState,
                   vibrancy |-> newVibrancy,
                   calls |-> m.calls,
                   colorUpload |-> vibrancyChanged \/ morphStateRef.isMorphing ]

-----------------------------------------------------------------------------
(* Inputs drawn by the environment *)

\* time between two frames, ms
TimeSteps == {1000, 2000}

\* (Math.random() - 0.5) * radius lies in [-radius/2, radius/2) on every axis
OffsetSamples(radius) ==
    { Vec(-(radius \div 2), -(radius \div 2), -(radius \div 2)),
      Vec((radius \div 2) - 1, 0, -(radius \div 4)) }

\* one draw for all n particles
RandomOffsets(radius, n) == { [k \in 1..n |-> o] : o \in OffsetSamples(radius) }

\* one press: the offset of mouseBurstPosition and the point
\* setFromSphericalCoords(r, phi, theta), r = sphereRadius * cbrt(random) < sphereRadius
PressSamples ==
    { [offset |-> Vec(-(mouseBurstRadius \div 2), -(mouseBurstRadius \div 2), -(mouseBurstRadius \div 2)),
       sphere |-> Vec(0, 100, 0)],
      [offset |-> Vec((mouseBurstRadius \div 2) - 1, 0, -(mouseBurstRadius \div 4)),
       sphere |-> Vec(-60, 0, 80)] }

PointerPositions == { Vec(0, 30, 0) }

-----------------------------------------------------------------------------
(* The history kept for the properties *)

StartEvent(ps, direction, request, restart) ==
    [ kind |-> "start",
      dir |-> direction,
      request |-> request,
      restart |-> restart,
      idle |-> ~restart,
      snapped |-> FALSE,
      attr |-> [k \in 1..Len(ps) |-> ps[k].attractorPosition],
      src |-> [k \in 1..Len(ps) |-> ps[k].sourcePosition],
      targetRole |-> [k \in 1..Len(ps) |-> ps[k].targetPosition],
      target |-> TargetDataStatus ]

\* the trigger effect ran with a morphDirection and returned without starting a morph
DropEvent(ps, direction, request) ==
    [StartEvent(ps, direction, request, FALSE) EXCEPT !.kind = "drop",
                                                      !.idle = ~morphStateRef.isMorphing]

-----------------------------------------------------------------------------
(* Effects of ImageParticleEffect, src/Framer.tsx *)

SourceLoad(url, ms, vib) == [role |-> "source", url |-> url, morphState |-> ms, vibrancy |-> vib]

TargetLoads(url, ms, vib) ==
    IF url = "null" THEN {}
    ELSE {[role |-> "target", url |-> url, morphState |-> ms, vibrancy |-> vib]}

\* particlesRef.current.forEach of the trigger effect: burstPosition around the
\* departure home
BurstParticles(ps, direction, offsets) ==
    [k \in 1..Len(ps) |->
        [ps[k] EXCEPT !.burstPosition =
            VAdd(IF direction = "toTarget" THEN ps[k].sourcePosition ELSE ps[k].targetPosition,
                 offsets[k])]]

\* a trigger effect that starts the morph on the target role the particles have
MorphTriggerEffectNoUpdate(md, vib, request) ==
    IF /\ md # "null"
       /\ ~targetParticleDataRef.null
       /\ Len(particlesRef) > 0
       /\ Len(targetParticleDataRef.data) > 0
    THEN \E offsets \in RandomOffsets(morphBurstRadius, Len(particlesRef)) :
            /\ particlesRef' = BurstParticles(particlesRef, md, offsets)
            /\ morphStateRef' = [isMorphing |-> TRUE, startTime |-> now, direction |-> md]
            /\ events' = Append(events,
                                StartEvent(particlesRef, md, request, morphStateRef.isMorphing))
    ELSE /\ events' = IF md = "null" THEN events
                      ELSE Append(events, DropEvent(particlesRef, md, request))
         /\ UNCHANGED <<particlesRef, morphStateRef>>

\* the morph trigger effect, run with the morphDirection and the vibrancy of its render;
\* request: this run follows a change of morphDirection
MorphTriggerEffect(md, vib, request) ==
    IF /\ md # "null"
       /\ ~targetParticleDataRef.null
       /\ Len(particlesRef) > 0
       /\ Len(targetParticleDataRef.data) > 0
    THEN \E offsets \in RandomOffsets(morphBurstRadius, Len(particlesRef)) :
            /\ particlesRef' =
                   BurstParticles(UpdateTargetRole(particlesRef, targetParticleDataRef.data, vib),
                                  md, offsets)
            /\ morphStateRef' = [isMorphing |-> TRUE, startTime |-> now, direction |-> md]
            /\ events' = Append(events,
                                StartEvent(particlesRef, md, request, morphStateRef.isMorphing))
    ELSE /\ events' = IF md = "null" THEN events
                      ELSE Append(events, DropEvent(particlesRef, md, request))
         /\ UNCHANGED <<particlesRef, morphStateRef>>

\* the callback of loader.load(sourceImageUrl, ...) of the source image effect
SourceLoadComplete(l) ==
    /\ l \in pending
    /\ l.role = "source"
    /\ pending' = pending \ {l}
    /\ LET sourceData == getImageParticleData(l.url)
       IN  IF Len(sourceData) = 0
           THEN UNCHANGED <<particlesRef, instancedMeshRef>>
           ELSE IF ~instancedMeshRef
           THEN \* INITIAL LOAD
                /\ particlesRef' = SeedParticles(sourceData, l.vibrancy)
                /\ instancedMeshRef' = TRUE
           ELSE \* UPDATE SOURCE IMAGE
                /\ particlesRef' = updateSource(particlesRef, sourceData, l.vibrancy,
                                                l.morphState, morphStateRef.isMorphing)
                /\ UNCHANGED instancedMeshRef
    /\ UNCHANGED <<now, targetParticleDataRef, morphStateRef, mouseInteractionStateRef,
                   mouseInteractionStartTimeRef, mouse, animationFrameIdRef, frameRequests, sourceImageUrl,
                   targetImageUrl, morphState, morphDirection, vibrancy, animatedVibrancy,
                   prevMorphState, isMorphing, currentImageUrl, events, thrown, inputCount,
                   setupVars>>

\* the callback of loader.load(targetImageUrl, ...) of the target image effect
TargetLoadComplete(l) ==
    /\ l \in pending
    /\ l.role = "target"
    /\ pending' = pending \ {l}
    /\ LET targetData == getImageParticleData(l.url)
       IN  /\ targetParticleDataRef' = [null |-> FALSE, data |-> targetData]
           /\ IF Len(targetData) = 0 \/ Len(particlesRef) = 0
              THEN UNCHANGED particlesRef
              ELSE particlesRef' = updateTarget(particlesRef, targetData, l.vibrancy,
                                                l.morphState, morphStateRef.isMorphing)
    /\ UNCHANGED <<now, instancedMeshRef, morphStateRef, mouseInteractionStateRef,
                   mouseInteractionStartTimeRef, mouse, animationFrameIdRef, frameRequests, sourceImageUrl,
                   targetImageUrl, morphState, morphDirection, vibrancy, animatedVibrancy,
                   prevMorphState, isMorphing, currentImageUrl, events, thrown, inputCount,
                   setupVars>>

-----------------------------------------------------------------------------
(* Pointer listeners of the setup effect, src/Framer.tsx *)

\* the listeners the setup effect adds and its cleanup removes: the move listeners
\* only with the enablePushForce of the effect's closure, press and release always
PointerListeners(pushForce) ==
    (IF pushForce THEN {"mousemove"} ELSE {}) \cup {"mousedown", "mouseup"}

handlePointerMove(pos) ==
    /\ inputCount < MaxInputs
    /\ inputCount' = inputCount + 1
    /\ "mousemove" \in listeners
    /\ mouse' = pos
    /\ UNCHANGED <<now, particlesRef, instancedMeshRef, targetParticleDataRef, morphStateRef,
                   mouseInteractionStateRef, mouseInteractionStartTimeRef, animationFrameIdRef, frameRequests,
                   sourceImageUrl, targetImageUrl, morphState, morphDirection, vibrancy,
                   animatedVibrancy, prevMorphState, isMorphing, currentImageUrl, pending,
                   events, thrown, setupVars>>

handlePointerDown ==
    /\ inputCount < MaxInputs
    /\ inputCount' = inputCount + 1
    /\ "mousedown" \in listeners
    /\ mouseInteractionStateRef' = "bursting"
    /\ mouseInteractionStartTimeRef' = now
    /\ \E press \in PressSamples :
          particlesRef' =
              [k \in 1..Len(particlesRef) |->
                  [particlesRef[k] EXCEPT
                      !.mouseBurstPosition = VAdd(particlesRef[k].currentPosition, press.offset),
                      !.sphereTargetPosition = press.sphere]]
    /\ UNCHANGED <<now, instancedMeshRef, targetParticleDataRef, morphStateRef, mouse,
                   animationFrameIdRef, frameRequests, sourceImageUrl, targetImageUrl, morphState,
                   morphDirection, vibrancy, animatedVibrancy, prevMorphState, isMorphing,
                   currentImageUrl, pending, events, thrown, setupVars>>

\* a release that also brings every particle to a stop
handlePointerUpStop ==
    /\ inputCount < MaxInputs
    /\ inputCount' = inputCount + 1
    /\ "mouseup" \in listeners
    /\ mouseInteractionStateRef' = "none"
    /\ particlesRef' = [k \in 1..Len(particlesRef) |->
                            [particlesRef[k] EXCEPT !.velocity = Zero3]]
    /\ UNCHANGED <<now, instancedMeshRef, targetParticleDataRef, morphStateRef,
                   mouseInteractionStartTimeRef, mouse, animationFrameIdRef, frameRequests, sourceImageUrl,
                   targetImageUrl, morphState, morphDirection, vibrancy, animatedVibrancy,
                   prevMorphState, isMorphing, currentImageUrl, pending, events, thrown,
                   setupVars>>

handlePointerUp ==
    /\ inputCount < MaxInputs
    /\ inputCount' = inputCount + 1
    /\ "mouseup" \in listeners
    /\ mouseInteractionStateRef' = "none"
    /\ UNCHANGED <<now, particlesRef, instancedMeshRef, targetParticleDataRef, morphStateRef,
                   mouseInteractionStartTimeRef, mouse, animationFrameIdRef, frameRequests, sourceImageUrl,
                   targetImageUrl, morphState, morphDirection, vibrancy, animatedVibrancy,
                   prevMorphState, isMorphing, currentImageUrl, pending, events, thrown,
                   setupVars>>

-----------------------------------------------------------------------------
(* animate, src/Framer.tsx: the frame that runs dt after the previous one.          *)
(* onMorphComplete is handleMorphComplete of FramerImageParticleEffect:             *)
(* setMorphDirection(null); the render that follows runs the trigger effect with    *)
(* morphDirection = null, which does nothing.                                       *)

\* an animate that requests a frame in its first statement and another at its end
requestedFramesTwice(n) == (n - 1) + 2

\* the requests left when a callback has run: the callback itself is no longer
\* pending, and animate has requested one frame, in its first statement
requestedFrames(n) == (n - 1) + 1

\* animationFrameIdRef.current = requestAnimationFrame(animate): the frame that is
\* pending runs dt after the previous one, and requests the next before anything else
requestAnimationFrame(dt, limit) ==
    /\ animationFrameIdRef
    /\ frameRequests > 0
    /\ now + dt <= limit
    /\ now' = now + dt
    /\ frameRequests' = requestedFrames(frameRequests)

\* a frame without the early return: the blocks of animate run on what there is
FrameWithoutGuard(dt, limit) ==
    /\ requestAnimationFrame(dt, limit)
    /\ LET f == AnimateFrame(now + dt)
       IN  /\ particlesRef' = f.particles
           /\ morphStateRef' = f.morph
           /\ mouseInteractionStateRef' = f.mouseState
           /\ animatedVibrancy' = f.vibrancy
           /\ events' = events \o f.calls
           /\ morphDirection' = IF f.calls # << >> THEN "null" ELSE morphDirection
    /\ UNCHANGED <<instancedMeshRef, targetParticleDataRef, mouseInteractionStartTimeRef,
                   mouse, animationFrameIdRef, sourceImageUrl, targetImageUrl, morphState,
                   vibrancy, prevMorphState, isMorphing, currentImageUrl, pending, thrown,
                   inputCount, setupVars>>

\* the callback of requestAnimationFrame: one run of animate
Frame(dt, limit) ==
    /\ requestAnimationFrame(dt, limit)
    /\ IF ~instancedMeshRef \/ Len(particlesRef) = 0
       THEN UNCHANGED <<particlesRef, morphStateRef, mouseInteractionStateRef,
                        animatedVibrancy, events, morphDirection>>
       ELSE LET f == AnimateFrame(now + dt)
            IN  /\ particlesRef' = f.particles
                /\ morphStateRef' = f.morph
                /\ mouseInteractionStateRef' = f.mouseState
                /\ animatedVibrancy' = f.vibrancy
                /\ events' = events \o f.calls
                /\ morphDirection' = IF f.calls # << >> THEN "null" ELSE morphDirection
    /\ UNCHANGED <<instancedMeshRef, targetParticleDataRef, mouseInteractionStartTimeRef,
                   mouse, animationFrameIdRef, sourceImageUrl, targetImageUrl, morphState,
                   vibrancy, prevMorphState, isMorphing, currentImageUrl, pending, thrown,
                   inputCount, setupVars>>

animate(dt) == Frame(dt, MaxTime)

-----------------------------------------------------------------------------
(* FramerImageParticleEffect: a prop changed on the canvas.  One action is the     *)
(* render with the new prop together with the effects that render schedules.       *)

\* morphState flipped: the source and target image effects re-run (morphState is a
\* dependency of both) and start their loads; the wrapper's effect sets
\* morphDirection and prevMorphState; the next render runs the morph trigger effect
SetMorphState ==
    /\ inputCount < MaxInputs
    /\ LET ms == IF morphState = "source" THEN "target" ELSE "source"
           md == IF ms = "target" THEN "toTarget" ELSE "toSource"
           loads == pending \cup {SourceLoad(sourceImageUrl, ms, vibrancy)}
                            \cup TargetLoads(targetImageUrl, ms, vibrancy)
       IN  /\ Cardinality(loads) <= MaxPending
           /\ morphState' = ms
           /\ prevMorphState' = ms
           /\ morphDirection' = md
           /\ pending' = loads
           /\ MorphTriggerEffect(md, vibrancy, TRUE)
    /\ inputCount' = inputCount + 1
    /\ UNCHANGED <<now, instancedMeshRef, targetParticleDataRef, mouseInteractionStateRef,
                   mouseInteractionStartTimeRef, mouse, animationFrameIdRef, frameRequests, sourceImageUrl,
                   targetImageUrl, vibrancy, animatedVibrancy, isMorphing, currentImageUrl,
                   thrown, setupVars>>

\* appearance.vibrancy changed: a dependency of the source image effect, the target
\* image effect and the morph trigger effect, which all re-run
SetVibrancy(v) ==
    /\ inputCount < MaxInputs
    /\ v # vibrancy
    /\ LET loads == pending \cup {SourceLoad(sourceImageUrl, morphState, v)}
                            \cup TargetLoads(targetImageUrl, morphState, v)
       IN  /\ Cardinality(loads) <= MaxPending
           /\ pending' = loads
    /\ vibrancy' = v
    /\ MorphTriggerEffect(morphDirection, v, FALSE)
    /\ inputCount' = inputCount + 1
    /\ UNCHANGED <<now, instancedMeshRef, targetParticleDataRef, mouseInteractionStateRef,
                   mouseInteractionStartTimeRef, mouse, animationFrameIdRef, frameRequests, sourceImageUrl,
                   targetImageUrl, morphState, morphDirection, animatedVibrancy,
                   prevMorphState, isMorphing, currentImageUrl, thrown, setupVars>>

\* targetImage changed: the target image effect re-runs
SetTargetImage(url) ==
    /\ inputCount < MaxInputs
    /\ url # targetImageUrl
    /\ LET loads == pending \cup TargetLoads(url, morphState, vibrancy)
       IN  /\ Cardinality(loads) <= MaxPending
           /\ pending' = loads
    /\ targetImageUrl' = url
    /\ inputCount' = inputCount + 1
    /\ UNCHANGED <<now, particlesRef, instancedMeshRef, targetParticleDataRef, morphStateRef,
                   mouseInteractionStateRef, mouseInteractionStartTimeRef, mouse,
                   animationFrameIdRef, frameRequests, sourceImageUrl, morphState, morphDirection, vibrancy,
                   animatedVibrancy, prevMorphState, isMorphing, currentImageUrl, events,
                   thrown, setupVars>>

\* sourceImage changed: the source image effect re-runs
SetSourceImage(url) ==
    /\ inputCount < MaxInputs
    /\ url # sourceImageUrl
    /\ LET loads == pending \cup {SourceLoad(url, morphState, vibrancy)}
       IN  /\ Cardinality(loads) <= MaxPending
           /\ pending' = loads
    /\ sourceImageUrl' = url
    /\ inputCount' = inputCount + 1
    /\ UNCHANGED <<now, particlesRef, instancedMeshRef, targetParticleDataRef, morphStateRef,
                   mouseInteractionStateRef, mouseInteractionStartTimeRef, mouse,
                   animationFrameIdRef, frameRequests, targetImageUrl, morphState, morphDirection, vibrancy,
                   animatedVibrancy, prevMorphState, isMorphing, currentImageUrl, events,
                   thrown, setupVars>>

-----------------------------------------------------------------------------
(* The setup effect of ImageParticleEffect, src/Framer.tsx: dependencies           *)
(* [enablePushForce].  Its body returns at once when rendererRef.current is set;   *)
(* otherwise it builds the scene, adds the listeners and calls animate().          *)

CleanupEvent(ps) == [StartEvent(ps, "null", FALSE, FALSE) EXCEPT !.kind = "cleanup"]

\* a cleanup that leaves the requested frame pending
cancelAnimationFrameKeep(pendingFrame) == pendingFrame

\* if (animationFrameIdRef.current) cancelAnimationFrame(animationFrameIdRef.current):
\* whether a frame callback is still pending afterwards
cancelAnimationFrame(pendingFrame) == FALSE

\* the function the setup effect returned, with the enablePushForce of its closure
SetupCleanup(pushForce) ==
    /\ listeners' = listeners \ PointerListeners(pushForce)
    /\ animationFrameIdRef' = cancelAnimationFrame(animationFrameIdRef)
    /\ frameRequests' = IF animationFrameIdRef /\ ~cancelAnimationFrame(animationFrameIdRef)
                        THEN frameRequests - 1 ELSE frameRequests
    /\ events' = Append(events, CleanupEvent(particlesRef))

\* enablePushForce toggled on the canvas: the props effect stores the new props, the
\* cleanup of the setup effect runs with the old closure, and the setup effect runs
\* again: isInitialized is true, so it returns without listeners and without animate()
SetEnablePushForce ==
    /\ inputCount < MaxInputs
    /\ inputCount' = inputCount + 1
    /\ setupEffect # "unmounted"
    /\ enablePushForce' = ~enablePushForce
    /\ IF setupEffect = "active"
       THEN /\ SetupCleanup(enablePushForce)
            /\ setupEffect' = IF rendererRef THEN "cleaned" ELSE "active"
       ELSE UNCHANGED <<listeners, animationFrameIdRef, frameRequests, events, setupEffect>>
    /\ UNCHANGED <<now, particlesRef, instancedMeshRef, targetParticleDataRef, morphStateRef,
                   mouseInteractionStateRef, mouseInteractionStartTimeRef, mouse,
                   sourceImageUrl, targetImageUrl, morphState, morphDirection, vibrancy,
                   animatedVibrancy, prevMorphState, isMorphing, currentImageUrl, pending,
                   thrown, enableCollisions, rendererRef, force>>

\* enableCollisions toggled: only the props effect runs (targetPropsRef.current = props)
SetEnableCollisions ==
    /\ inputCount < MaxInputs
    /\ inputCount' = inputCount + 1
    /\ setupEffect # "unmounted"
    /\ enableCollisions' = ~enableCollisions
    /\ UNCHANGED <<now, particlesRef, instancedMeshRef, targetParticleDataRef, morphStateRef,
                   mouseInteractionStateRef, mouseInteractionStartTimeRef, mouse,
                   animationFrameIdRef, frameRequests, sourceImageUrl, targetImageUrl, morphState,
                   morphDirection, vibrancy, animatedVibrancy, prevMorphState, isMorphing,
                   currentImageUrl, pending, events, thrown, enablePushForce, listeners,
                   rendererRef, setupEffect, force>>

\* the component is removed: the cleanup of the setup effect runs if its last run
\* returned one; image loads already started are not cancelled
Unmount ==
    /\ inputCount < MaxInputs
    /\ inputCount' = inputCount + 1
    /\ setupEffect # "unmounted"
    /\ setupEffect' = "unmounted"
    /\ IF setupEffect = "active"
       THEN SetupCleanup(enablePushForce)
       ELSE UNCHANGED <<listeners, animationFrameIdRef, frameRequests, events>>
    /\ UNCHANGED <<now, particlesRef, instancedMeshRef, targetParticleDataRef, morphStateRef,
                   mouseInteractionStateRef, mouseInteractionStartTimeRef, mouse,
                   sourceImageUrl, targetImageUrl, morphState, morphDirection, vibrancy,
                   animatedVibrancy, prevMorphState, isMorphing, currentImageUrl, pending,
                   thrown, enablePushForce, enableCollisions, rendererRef, force>>

-----------------------------------------------------------------------------
(* The Framer component after its first render: the setup effect has started       *)
(* animate, the image effects have started their loads.                            *)

InitialImages == { <<"A", "B">> }

Init ==
    /\ now = 0
    /\ particlesRef = << >>
    /\ instancedMeshRef = FALSE
    /\ targetParticleDataRef = [null |-> TRUE, data |-> << >>]
    /\ morphStateRef = [isMorphing |-> FALSE, startTime |-> 0, direction |-> "null"]
    /\ mouseInteractionStateRef = "none"
    /\ mouseInteractionStartTimeRef = 0
    /\ mouse = mouseFarAway
    /\ animationFrameIdRef = TRUE
    /\ frameRequests = 1
    /\ \E im \in InitialImages :
          /\ sourceImageUrl = im[1]
          /\ targetImageUrl = im[2]
          /\ currentImageUrl = im[1]
          /\ pending = {SourceLoad(im[1], InitialMorphState, 1200)}
                           \cup TargetLoads(im[2], InitialMorphState, 1200)
    /\ morphState = InitialMorphState
    /\ prevMorphState = InitialMorphState
    /\ morphDirection = "null"
    /\ vibrancy = 1200
    /\ animatedVibrancy = 1200
    /\ isMorphing = FALSE
    /\ events = << >>
    /\ thrown = FALSE
    /\ inputCount = 0
    /\ enablePushForce = TRUE
    /\ enableCollisions = TRUE
    /\ listeners = PointerListeners(TRUE)
    /\ rendererRef = TRUE
    /\ setupEffect = "active"
    /\ force = ForceProps

Next ==
    \/ \E dt \in TimeSteps : animate(dt)
    \/ \E l \in pending : SourceLoadComplete(l)
    \/ \E l \in pending : TargetLoadComplete(l)
    \/ \E pos \in PointerPositions : handlePointerMove(pos)
    \/ handlePointerDown
    \/ handlePointerUp
    \/ SetMorphState
    \/ \E v \in Vibrancies : SetVibrancy(v)
    \/ \E url \in ImageUrls : SetTargetImage(url)
    \/ \E url \in ImageUrls : SetSourceImage(url)

Spec == Init /\ [][Next]_vars

\* The same component followed long enough for a morph and the morph back: the
\* host only flips morphState
animateRoundTrip(dt) == Frame(dt, MaxRoundTripTime)

\* time between two frames of the round-trip behaviours, ms
RoundTripSteps == {2000, 4000}

NextRoundTrip ==
    \/ \E dt \in RoundTripSteps : animateRoundTrip(dt)
    \/ \E l \in pending : SourceLoadComplete(l)
    \/ \E l \in pending : TargetLoadComplete(l)
    \/ SetMorphState

SpecRoundTrip == Init /\ [][NextRoundTrip]_vars

\* The same component followed at a finer time step around the 400 ms of the pointer
\* burst: pointer events, and a morph that may be in progress
animatePointer(dt) == Frame(dt, MaxPointerTime)

\* time between two frames of the pointer behaviours, ms
PointerSteps == {200, 400}

NextPointer ==
    \/ \E dt \in PointerSteps : animatePointer(dt)
    \/ \E l \in pending : SourceLoadComplete(l)
    \/ \E l \in pending : TargetLoadComplete(l)
    \/ \E pos \in PointerPositions : handlePointerMove(pos)
    \/ handlePointerDown
    \/ handlePointerUp
    \/ SetMorphState

SpecPointer == Init /\ [][NextPointer]_vars

\* The same component when the host toggles the boolean options and removes the
\* component
NextSetup ==
    \/ \E dt \in TimeSteps : animate(dt)
    \/ \E l \in pending : SourceLoadComplete(l)
    \/ \E l \in pending : TargetLoadComplete(l)
    \/ \E pos \in PointerPositions : handlePointerMove(pos)
    \/ handlePointerDown
    \/ handlePointerUp
    \/ SetEnablePushForce
    \/ SetEnableCollisions
    \/ Unmount

SpecSetup == Init /\ [][NextSetup]_vars

-----------------------------------------------------------------------------
(* handleCollisions on its own: the particles start anywhere on a small lattice    *)
(* around one grid cell border, and every step is one call of                      *)
(* handleCollisions(particlesRef.current, particleSize); the history holds the     *)
(* record of the last call.                                                        *)

\* positions around the cell borders x = 10 and x = 20 of the grid of cell size 10
CollisionPositions == { Vec(x, y, 0) : x \in {0, 8, 9, 10, 21, 24}, y \in {0, 4} }

CollisionVelocities == { Zero3, Vec(-3, 1, 0) }

CollisionInputs ==
    { [k \in 1..3 |->
          [NewParticle(Point(pos[k], Color(100, 400)), k - 1, 1200)
              EXCEPT !.velocity = vel[k]]] :
        pos \in [1..3 -> CollisionPositions], vel \in [1..3 -> CollisionVelocities] }

\* the record of one call: the pairs examined, the positions at the start of
\* each outer iteration, and the positions before and after the call
PassEvent(ps, run) ==
    [ kind |-> "pass",
      log |-> run.log,
      starts |-> run.starts,
      from |-> [k \in 1..Len(ps) |-> ps[k].currentPosition],
      to |-> [k \in 1..Len(ps) |-> run.particles[k].currentPosition] ]

\* the component at rest with its images loaded: everything but the particles, the
\* pointer, the options and the history
InitIdle ==
    /\ now = 0
    /\ instancedMeshRef = TRUE
    /\ targetParticleDataRef = [null |-> FALSE, data |-> ImageB]
    /\ morphStateRef = [isMorphing |-> FALSE, startTime |-> 0, direction |-> "null"]
    /\ mouseInteractionStateRef = "none"
    /\ mouseInteractionStartTimeRef = 0
    /\ animationFrameIdRef = TRUE
    /\ frameRequests = 1
    /\ sourceImageUrl = "A"
    /\ targetImageUrl = "B"
    /\ currentImageUrl = "A"
    /\ pending = {}
    /\ morphState = InitialMorphState
    /\ prevMorphState = InitialMorphState
    /\ morphDirection = "null"
    /\ vibrancy = 1200
    /\ animatedVibrancy = 1200
    /\ isMorphing = FALSE
    /\ thrown = FALSE
    /\ inputCount = 0
    /\ listeners = PointerListeners(TRUE)
    /\ rendererRef = TRUE
    /\ setupEffect = "active"

\* the same with the default options and an empty history
InitLoaded ==
    /\ InitIdle
    /\ events = << >>
    /\ enablePushForce = TRUE
    /\ enableCollisions = TRUE
    /\ force = ForceProps

InitCollisions ==
    /\ InitLoaded
    /\ particlesRef \in CollisionInputs
    /\ mouse = mouseFarAway

collisionPass ==
    /\ enableCollisions
    /\ LET run == CollisionRun(particlesRef, particleSize)
       IN  /\ particlesRef' = run.particles
           /\ events' = << PassEvent(particlesRef, run) >>
    /\ UNCHANGED <<now, instancedMeshRef, targetParticleDataRef, morphStateRef,
                   mouseInteractionStateRef, mouseInteractionStartTimeRef, mouse,
                   animationFrameIdRef, frameRequests, sourceImageUrl, targetImageUrl, morphState,
                   morphDirection, vibrancy, animatedVibrancy, prevMorphState, isMorphing,
                   currentImageUrl, pending, thrown, inputCount, setupVars>>

NextCollisions == collisionPass

SpecCollisions == InitCollisions /\ [][NextCollisions]_vars

-----------------------------------------------------------------------------
(* The push block of animate on its own: the particles and the pointer start on    *)
(* points inside, on and outside the push radius, in the cell of the pointer and   *)
(* in the cells around it, and the one step is the push block of a normal frame;   *)
(* the history holds its record.                                                   *)

PushPointers == { Vec(0, 30, 0), Vec(59, 0, 0) }

PushPositions ==
    { Vec(-20, 20, 0), Vec(10, 40, 0), Vec(0, 30, 0), Vec(0, 90, 0), Vec(0, 89, 0),
      Vec(-1, -1, 0), Vec(-70, 30, 0), Vec(1000, 1000, 0) }

PushVelocities == { Zero3, Vec(1, -2, 0) }

PushInputs ==
    { [k \in 1..3 |->
          [NewParticle(Point(pos[k], Color(100, 400)), k - 1, 1200)
              EXCEPT !.velocity = vel[k]]] :
        pos \in [1..3 -> PushPositions], vel \in [1..3 -> PushVelocities] }

PushEvent(ps, pos, pushed) ==
    [ kind |-> "push",
      pos |-> pos,
      position |-> [k \in 1..Len(ps) |-> ps[k].currentPosition],
      from |-> [k \in 1..Len(ps) |-> ps[k].velocity],
      to |-> [k \in 1..Len(ps) |-> pushed[k].velocity] ]

InitPush ==
    /\ InitLoaded
    /\ particlesRef \in PushInputs
    /\ mouse \in PushPointers

pushBlock ==
    /\ events = << >>
    /\ enablePushForce /\ mouseInteractionStateRef = "none" /\ pushRadius > 0
    /\ LET pushed == PushForce(particlesRef, mouse)
       IN  /\ particlesRef' = pushed
           /\ events' = << PushEvent(particlesRef, mouse, pushed) >>
    /\ UNCHANGED <<now, instancedMeshRef, targetParticleDataRef, morphStateRef,
                   mouseInteractionStateRef, mouseInteractionStartTimeRef, mouse,
                   animationFrameIdRef, frameRequests, sourceImageUrl, targetImageUrl, morphState,
                   morphDirection, vibrancy, animatedVibrancy, prevMorphState, isMorphing,
                   currentImageUrl, pending, thrown, inputCount, setupVars>>

NextPush == pushBlock

SpecPush == InitPush /\ [][NextPush]_vars

-----------------------------------------------------------------------------
(* The integrator on its own: push and collisions are switched off, no morph and   *)
(* no pointer interaction take place, the attractors stay where they are, and      *)
(* every particle is released at rest away from its attractor.  Positions and      *)
(* velocities are in thousandths of a world unit here (the integrator is linear    *)
(* in them).  The frames follow one another for as long as the clock runs.         *)

\* the horizon of the behaviours of the integrator, ms
MaxDampingTime == 4000

\* time between two frames of these behaviours, ms
DampingSteps == {16}

\* returnStrength 0, 0.02 (the default) and 0.2; damping 0.8 and 0.92 (the default)
DampingForces ==
    { [returnStrength |-> k, damping |-> d] : k \in {0, 20, 200}, d \in {800, 920} }

DampingHomes == << Vec(0, 0, 0), Vec(20000, -5000, 0) >>

DampingDisplacements == { Vec(40000, -30000, 0), Vec(-7000, 0, 12000) }

DampingInputs ==
    { [k \in 1..2 |->
          [NewParticle(Point(DampingHomes[k], Color(100, 400)), k - 1, 1200)
              EXCEPT !.currentPosition = VAdd(DampingHomes[k], off[k])]] :
        off \in [1..2 -> DampingDisplacements] }

\* the record of the release: where every particle was let go
ReleaseEvent(ps) ==
    [ kind |-> "release",
      position |-> [k \in 1..Len(ps) |-> ps[k].currentPosition],
      attr |-> [k \in 1..Len(ps) |-> ps[k].attractorPosition] ]

InitDamping ==
    /\ InitIdle
    /\ particlesRef \in DampingInputs
    /\ events = << ReleaseEvent(particlesRef) >>
    /\ mouse = mouseFarAway
    /\ enablePushForce = FALSE
    /\ enableCollisions = FALSE
    /\ force \in DampingForces

animateDamping(dt) == Frame(dt, MaxDampingTime)

NextDamping == \E dt \in DampingSteps : animateDamping(dt)

\* a requested frame runs: the browser calls back every pending frame, and every
\* step of these behaviours that moves the clock is a frame of animate
FrameRuns == \E dt \in DampingSteps : requestAnimationFrame(dt, MaxDampingTime)

SpecDamping == InitDamping /\ [][NextDamping]_vars /\ WF_now(FrameRuns)

-----------------------------------------------------------------------------
(* A morph sampled once: the component rests with both images loaded, the host     *)
(* flips morphState, the image loads this starts complete at any time, and one     *)
(* normal frame runs at a chosen time after the start of the morph; the history    *)
(* holds what the frame found and what it left.                                    *)

\* time from the start of the morph to the sampled frame, ms: the phase borders,
\* their neighbours and points inside the phases
SampleTimes ==
    {0, 1, 650, 1299, 1300, 1301, 1950, 2599, 2600, 2601, 3300, 3999, 4000, 4001, 5000}

\* the record of the sampled frame: elapsedTime, and per particle the homes, the
\* burst position and the sphere waypoint the frame found and the attractor it left
SampleEvent(ps, ms, t, f) ==
    [ kind |-> "sample",
      dir |-> ms.direction,
      elapsedTime |-> t - ms.startTime,
      completed |-> f.calls # << >>,
      morphing |-> f.morph.isMorphing,
      source |-> [k \in 1..Len(ps) |-> ps[k].sourcePosition],
      target |-> [k \in 1..Len(ps) |-> ps[k].targetPosition],
      burst |-> [k \in 1..Len(ps) |-> ps[k].burstPosition],
      sphere |-> [k \in 1..Len(ps) |-> spherePos(k - 1, Len(ps))],
      attr |-> [k \in 1..Len(ps) |-> f.particles[k].attractorPosition] ]

HasSample == \E n \in 1..Len(events) : events[n].kind = "sample"

InitSampled ==
    /\ InitLoaded
    /\ particlesRef = UpdateTargetRole(SeedParticles(ImageA, 1200), ImageB, 1200)
    /\ mouse = mouseFarAway

\* one normal frame of animate during a morph, put on record
animateSampled(dt) ==
    /\ ~HasSample
    /\ morphStateRef.isMorphing
    /\ mouseInteractionStateRef = "none"
    /\ instancedMeshRef /\ Len(particlesRef) > 0
    /\ requestAnimationFrame(dt, MaxTime)
    /\ LET f == AnimateFrame(now + dt)
       IN  /\ particlesRef' = f.particles
           /\ morphStateRef' = f.morph
           /\ mouseInteractionStateRef' = f.mouseState
           /\ animatedVibrancy' = f.vibrancy
           /\ events' = (events \o f.calls)
                            \o << SampleEvent(particlesRef, morphStateRef, now + dt, f) >>
           /\ morphDirection' = IF f.calls # << >> THEN "null" ELSE morphDirection
    /\ UNCHANGED <<instancedMeshRef, targetParticleDataRef, mouseInteractionStartTimeRef,
                   mouse, animationFrameIdRef, sourceImageUrl, targetImageUrl, morphState,
                   vibrancy, prevMorphState, isMorphing, currentImageUrl, pending, thrown,
                   inputCount, setupVars>>

NextSampled ==
    \/ \E l \in pending : SourceLoadComplete(l)
    \/ \E l \in pending : TargetLoadComplete(l)
    \/ SetMorphState
    \/ \E dt \in SampleTimes : animateSampled(dt)

SpecSampled == InitSampled /\ [][NextSampled]_vars

-----------------------------------------------------------------------------
(* The push block and handleCollisions on particles that lie on one another and    *)
(* on the pointer: the first step may be the push block, every other step is a     *)
(* call of handleCollisions.                                                       *)

CoincidentPositions == { Vec(0, 30, 0), Vec(4, 30, 0), Vec(100, 0, 0) }

CoincidentInputs ==
    { [k \in 1..3 |->
          [NewParticle(Point(pos[k], Color(100, 400)), k - 1, 1200)
              EXCEPT !.velocity = vel[k]]] :
        pos \in [1..3 -> CoincidentPositions], vel \in [1..3 -> CollisionVelocities] }

InitCoincident ==
    /\ InitLoaded
    /\ particlesRef \in CoincidentInputs
    /\ mouse \in { Vec(0, 30, 0), mouseFarAway }

NextCoincident ==
    \/ pushBlock
    \/ collisionPass

SpecCoincident == InitCoincident /\ [][NextCoincident]_vars

-----------------------------------------------------------------------------
(* Normal frames of animate on particles that move, are away from their attractor, *)
(* lie within pushRadius of the pointer and come within collision distance of one  *)
(* another, with the push and the collisions enabled or not.                       *)

TickPositions == { Vec(0, 30, 0), Vec(4, 30, 0), Vec(12, 34, 0), Vec(-30, 10, 0) }

TickAttractors == { Vec(0, 30, 0), Vec(60, -20, 0) }

TickInputs ==
    { [k \in 1..3 |->
          [NewParticle(Point(pos[k], Color(100, 400)), k - 1, 1200)
              EXCEPT !.velocity = vel[k], !.attractorPosition = attr]] :
        pos \in [1..3 -> TickPositions], vel \in [1..3 -> CollisionVelocities],
        attr \in TickAttractors }

\* the record of one frame: the particles and the pointer it found
TickEvent(ps, pos) == [ kind |-> "tick", from |-> ps, pos |-> pos ]

InitTick ==
    /\ InitIdle
    /\ events = << >>
    /\ enablePushForce \in BOOLEAN
    /\ enableCollisions \in BOOLEAN
    /\ force = ForceProps
    /\ particlesRef \in TickInputs
    /\ mouse \in { Vec(0, 30, 0), mouseFarAway }

\* one frame of animate, put on record
animateTick(dt) ==
    /\ instancedMeshRef /\ Len(particlesRef) > 0
    /\ requestAnimationFrame(dt, MaxTime)
    /\ LET f == AnimateFrame(now + dt)
       IN  /\ particlesRef' = f.particles
           /\ morphStateRef' = f.morph
           /\ mouseInteractionStateRef' = f.mouseState
           /\ animatedVibrancy' = f.vibrancy
           /\ events' = << TickEvent(particlesRef, mouse) >>
           /\ morphDirection' = IF f.calls # << >> THEN "null" ELSE morphDirection
    /\ UNCHANGED <<instancedMeshRef, targetParticleDataRef, mouseInteractionStartTimeRef,
                   mouse, animationFrameIdRef, sourceImageUrl, targetImageUrl, morphState,
                   vibrancy, prevMorphState, isMorphing, currentImageUrl, pending, thrown,
                   inputCount, setupVars>>

NextTick == \E dt \in TimeSteps : animateTick(dt)

SpecTick == InitTick /\ [][NextTick]_vars

-----------------------------------------------------------------------------
(* One call of handleCollisions on two particles at a distance that a whole number *)
(* gives exactly, with velocities in thousandths of a unit per frame, and a third  *)
(* particle far from both.                                                         *)

ImpulsePositions ==
    { Vec(8, 0, 0), Vec(3, 4, 0), Vec(0, -6, 0), Vec(-4, -3, 0), Vec(0, 0, 5), Vec(2, 3, 6),
      Vec(12, 0, 0) }

ImpulseVelocities ==
    { Zero3, Vec(-3000, 1000, 0), Vec(2000, 0, 0), Vec(0, -1500, 500), Vec(700, 900, -1100) }

ImpulseInputs ==
    { [k \in 1..3 |->
          [NewParticle(Point(<< Zero3, pos, Vec(100, 0, 0) >>[k], Color(100, 400)), k - 1, 1200)
              EXCEPT !.velocity = << v1, v2, Vec(-3000, 1000, 0) >>[k]]] :
        pos \in ImpulsePositions, v1 \in ImpulseVelocities, v2 \in ImpulseVelocities }

InitImpulse ==
    /\ InitLoaded
    /\ particlesRef \in ImpulseInputs
    /\ mouse = mouseFarAway

\* the call of handleCollisions in the first frame
collisionPassOnce == events = << >> /\ collisionPass

SpecImpulse == InitImpulse /\ [][collisionPassOnce]_vars

-----------------------------------------------------------------------------
(* The host App of src/App.tsx with the component of                             *)
(* src/components/ImageParticleEffect.tsx                                         *)

\* the force constants written in animate of the component
basicReturnStrength == 20

basicDamping == 920

basicPushRadius == 60

basicPushStrength == 800

\* sourceData.map(data => ({...})): colours are the sampled colours, no base copies
BasicParticle(data) ==
    [ currentPosition |-> data.position,
      sourcePosition |-> data.position,
      targetPosition |-> data.position,
      velocity |-> Zero3,
      currentColor |-> data.color,
      sourceColor |-> data.color,
      targetColor |-> data.color,
      attractorPosition |-> data.position,
      burstPosition |-> Zero3,
      sphereTargetPosition |-> Zero3,
      mouseBurstPosition |-> Zero3 ]

\* both loops of the morph trigger effect of the component
BasicTargetRole(ps, targetData) ==
    LET numParticles == Min(Len(ps), Len(targetData))
    IN  [k \in 1..Len(ps) |->
            LET d == targetData[WrapIndex(k - 1, numParticles) + 1]
            IN  [ps[k] EXCEPT !.targetPosition = d.position, !.targetColor = d.color]]

\* burstPosition is taken around sourcePosition whatever the direction
BasicBurst(ps, offsets) ==
    [k \in 1..Len(ps) |-> [ps[k] EXCEPT !.burstPosition = VAdd(ps[k].sourcePosition, offsets[k])]]

\* with particles and an empty targetParticles the second loop starts at i = 0 with
\* targetIndex = 0 % 0 = NaN, and targetParticles[NaN].position throws a TypeError
BasicTriggerThrows == Len(particlesRef) > 0 /\ Len(targetParticleDataRef.data) = 0

\* the morph trigger effect of the component, run when morphDirection changed to md
BasicMorphTriggerEffect(md) ==
    IF md # "null" /\ ~targetParticleDataRef.null
    THEN IF BasicTriggerThrows
         THEN /\ thrown' = TRUE
              /\ animationFrameIdRef' = FALSE
              /\ frameRequests' = IF animationFrameIdRef THEN frameRequests - 1 ELSE frameRequests
              /\ UNCHANGED <<particlesRef, morphStateRef, events>>
         ELSE /\ \E offsets \in RandomOffsets(morphBurstRadius, Len(particlesRef)) :
                    particlesRef' =
                        BasicBurst(BasicTargetRole(particlesRef, targetParticleDataRef.data), offsets)
              /\ morphStateRef' = [isMorphing |-> TRUE, startTime |-> now, direction |-> md]
              /\ events' = Append(events, StartEvent(particlesRef, md, TRUE, morphStateRef.isMorphing))
              /\ UNCHANGED <<thrown, animationFrameIdRef, frameRequests>>
    ELSE /\ events' = IF md = "null" THEN events
                      ELSE Append(events, DropEvent(particlesRef, md, TRUE))
         /\ UNCHANGED <<particlesRef, morphStateRef, thrown, animationFrameIdRef, frameRequests>>

\* the callback of loader.load(sourceImageUrl, ...) in the setup effect
BasicSourceLoadComplete(l) ==
    /\ ~thrown
    /\ l \in pending
    /\ l.role = "source"
    /\ pending' = pending \ {l}
    /\ LET sourceData == getImageParticleData(l.url)
       IN  IF Len(sourceData) = 0
           THEN UNCHANGED <<particlesRef, instancedMeshRef>>
           ELSE /\ particlesRef' = [k \in 1..Len(sourceData) |-> BasicParticle(sourceData[k])]
                /\ instancedMeshRef' = TRUE
    /\ UNCHANGED <<now, targetParticleDataRef, morphStateRef, mouseInteractionStateRef,
                   mouseInteractionStartTimeRef, mouse, animationFrameIdRef, frameRequests, sourceImageUrl,
                   targetImageUrl, morphState, morphDirection, vibrancy, animatedVibrancy,
                   prevMorphState, isMorphing, currentImageUrl, events, thrown, inputCount,
                   setupVars>>

\* the callback of loader.load(targetImageUrl, ...) in the target effect
BasicTargetLoadComplete(l) ==
    /\ ~thrown
    /\ l \in pending
    /\ l.role = "target"
    /\ pending' = pending \ {l}
    /\ targetParticleDataRef' = [null |-> FALSE, data |-> getImageParticleData(l.url)]
    /\ UNCHANGED <<now, particlesRef, instancedMeshRef, morphStateRef, mouseInteractionStateRef,
                   mouseInteractionStartTimeRef, mouse, animationFrameIdRef, frameRequests, sourceImageUrl,
                   targetImageUrl, morphState, morphDirection, vibrancy, animatedVibrancy,
                   prevMorphState, isMorphing, currentImageUrl, events, thrown, inputCount,
                   setupVars>>

handleMouseMove(pos) ==
    /\ ~thrown
    /\ inputCount < MaxInputs
    /\ inputCount' = inputCount + 1
    /\ mouse' = pos
    /\ UNCHANGED <<now, particlesRef, instancedMeshRef, targetParticleDataRef, morphStateRef,
                   mouseInteractionStateRef, mouseInteractionStartTimeRef, animationFrameIdRef, frameRequests,
                   sourceImageUrl, targetImageUrl, morphState, morphDirection, vibrancy,
                   animatedVibrancy, prevMorphState, isMorphing, currentImageUrl, pending,
                   events, thrown, setupVars>>

handleMouseDown ==
    /\ ~thrown
    /\ inputCount < MaxInputs
    /\ inputCount' = inputCount + 1
    /\ mouseInteractionStateRef' = "bursting"
    /\ mouseInteractionStartTimeRef' = now
    /\ \E press \in PressSamples :
          particlesRef' =
              [k \in 1..Len(particlesRef) |->
                  [particlesRef[k] EXCEPT
                      !.mouseBurstPosition = VAdd(particlesRef[k].currentPosition, press.offset),
                      !.sphereTargetPosition = press.sphere]]
    /\ UNCHANGED <<now, instancedMeshRef, targetParticleDataRef, morphStateRef, mouse,
                   animationFrameIdRef, frameRequests, sourceImageUrl, targetImageUrl, morphState,
                   morphDirection, vibrancy, animatedVibrancy, prevMorphState, isMorphing,
                   currentImageUrl, pending, events, thrown, setupVars>>

handleMouseUp ==
    /\ ~thrown
    /\ inputCount < MaxInputs
    /\ inputCount' = inputCount + 1
    /\ mouseInteractionStateRef' = "none"
    /\ UNCHANGED <<now, particlesRef, instancedMeshRef, targetParticleDataRef, morphStateRef,
                   mouseInteractionStartTimeRef, mouse, animationFrameIdRef, frameRequests, sourceImageUrl,
                   targetImageUrl, morphState, morphDirection, vibrancy, animatedVibrancy,
                   prevMorphState, isMorphing, currentImageUrl, pending, events, thrown,
                   setupVars>>

\* the loop after the morph block: push, return force, damping, integration
BasicForces(ps, pos, mouseState) ==
    [k \in 1..Len(ps) |->
        LET distanceToMouse == Sqrt(distanceToSquared(ps[k].currentPosition, pos))
            pushed == IF mouseState = "none" /\ distanceToMouse < basicPushRadius
                      THEN VAdd(ps[k].velocity,
                                VScale(VMulDiv(VNormalize(VSub(ps[k].currentPosition, pos)),
                                               basicPushRadius - distanceToMouse, basicPushRadius),
                                       basicPushStrength))
                      ELSE ps[k].velocity
            returnForce == VScale(VSub(ps[k].attractorPosition, ps[k].currentPosition),
                                  basicReturnStrength)
            v == VScale(VAdd(pushed, returnForce), basicDamping)
        IN  [ps[k] EXCEPT !.velocity = v, !.currentPosition = VAdd(ps[k].currentPosition, v)]]

\* animate of the component: [particles, morph, mouseState, calls] after the frame at t
BasicAnimateFrame(t) ==
    LET mouseState == mouseInteractionStateRef
    IN  IF mouseState # "none"
        THEN [ particles |-> PointerOverride(particlesRef, mouseState, mouse),
               morph |-> morphStateRef,
               mouseState |-> PointerStateAfterTick(mouseState, t - mouseInteractionStartTimeRef),
               calls |-> << >> ]
        ELSE LET m == MorphBlock(particlesRef, morphStateRef, t)
             IN  [ particles |-> BasicForces(m.particles, mouse, mouseState),
                   morph |-> m.morph,
                   mouseState |-> mouseState,
                   calls |-> m.calls ]

\* a handleMorphComplete that never changes the image shown
ImageAfterMorphKeep(direction) == currentImageUrl

\* handleMorphComplete of App: the image now shown
ImageAfterMorph(direction) ==
    IF direction = "toTarget" /\ targetImageUrl # "null" THEN targetImageUrl
    ELSE IF direction = "toSource" THEN sourceImageUrl
    ELSE currentImageUrl

\* one frame of the component; onMorphComplete is handleMorphComplete of App
BasicFrame(dt, limit) ==
    /\ ~thrown
    /\ requestAnimationFrame(dt, limit)
    /\ IF ~instancedMeshRef \/ Len(particlesRef) = 0
       THEN UNCHANGED <<particlesRef, morphStateRef, mouseInteractionStateRef, events,
                        morphDirection, isMorphing, currentImageUrl>>
       ELSE LET f == BasicAnimateFrame(now + dt)
            IN  /\ particlesRef' = f.particles
                /\ morphStateRef' = f.morph
                /\ mouseInteractionStateRef' = f.mouseState
                /\ events' = events \o f.calls
                /\ IF f.calls # << >>
                   THEN /\ currentImageUrl' = ImageAfterMorph(f.calls[1].dir)
                        /\ isMorphing' = FALSE
                        /\ morphDirection' = "null"
                   ELSE UNCHANGED <<currentImageUrl, isMorphing, morphDirection>>
    /\ UNCHANGED <<instancedMeshRef, targetParticleDataRef, mouseInteractionStartTimeRef,
                   mouse, animationFrameIdRef, sourceImageUrl, targetImageUrl, morphState,
                   vibrancy, animatedVibrancy, prevMorphState, pending, thrown, inputCount,
                   setupVars>>

animateBasic(dt) == BasicFrame(dt, MaxTime)

\* the Morph button
handleToggleMorph ==
    /\ ~thrown
    /\ inputCount < MaxInputs
    /\ targetImageUrl # "null" /\ ~isMorphing
    /\ isMorphing' = TRUE
    /\ LET md == IF currentImageUrl = sourceImageUrl THEN "toTarget" ELSE "toSource"
       IN  /\ morphDirection' = md
           /\ IF md # morphDirection
              THEN BasicMorphTriggerEffect(md)
              ELSE UNCHANGED <<particlesRef, morphStateRef, events, thrown, animationFrameIdRef, frameRequests>>
    /\ inputCount' = inputCount + 1
    /\ UNCHANGED <<now, instancedMeshRef, targetParticleDataRef, mouseInteractionStateRef,
                   mouseInteractionStartTimeRef, mouse, sourceImageUrl, targetImageUrl,
                   morphState, vibrancy, animatedVibrancy, prevMorphState, currentImageUrl,
                   pending, setupVars>>

\* the Target Image input: reader.onloadend
handleTargetImageUpload(url) ==
    /\ ~thrown
    /\ inputCount < MaxInputs
    /\ targetImageUrl' = url
    /\ morphDirection' = "null"
    /\ pending' = IF url # targetImageUrl
                  THEN pending \cup TargetLoads(url, morphState, vibrancy)
                  ELSE pending
    /\ Cardinality(pending') <= MaxPending
    /\ inputCount' = inputCount + 1
    /\ UNCHANGED <<now, particlesRef, instancedMeshRef, targetParticleDataRef, morphStateRef,
                   mouseInteractionStateRef, mouseInteractionStartTimeRef, mouse,
                   animationFrameIdRef, frameRequests, sourceImageUrl, morphState, vibrancy, animatedVibrancy,
                   prevMorphState, isMorphing, currentImageUrl, events, thrown, setupVars>>

\* the Source Image input: reader.onloadend. A new url changes the key of the
\* component: the old instance is unmounted and a new one mounted with fresh refs
handleSourceImageUpload(url) ==
    /\ ~thrown
    /\ inputCount < MaxInputs
    /\ sourceImageUrl' = url
    /\ currentImageUrl' = url
    /\ targetImageUrl' = "null"
    /\ morphDirection' = "null"
    /\ isMorphing' = FALSE
    /\ IF url # sourceImageUrl
       THEN /\ particlesRef' = << >>
            /\ instancedMeshRef' = FALSE
            /\ targetParticleDataRef' = [null |-> TRUE, data |-> << >>]
            /\ morphStateRef' = [isMorphing |-> FALSE, startTime |-> 0, direction |-> "null"]
            /\ mouseInteractionStateRef' = "none"
            /\ mouseInteractionStartTimeRef' = 0
            /\ mouse' = mouseFarAway
            /\ pending' = {SourceLoad(url, morphState, vibrancy)}
       ELSE UNCHANGED <<particlesRef, instancedMeshRef, targetParticleDataRef, morphStateRef,
                        mouseInteractionStateRef, mouseInteractionStartTimeRef, mouse, pending>>
    /\ inputCount' = inputCount + 1
    /\ UNCHANGED <<now, animationFrameIdRef, frameRequests, morphState, vibrancy, animatedVibrancy,
                   prevMorphState, events, thrown, setupVars>>

\* App after its first render: no target image, the default source image loading
InitApp ==
    /\ now = 0
    /\ particlesRef = << >>
    /\ instancedMeshRef = FALSE
    /\ targetParticleDataRef = [null |-> TRUE, data |-> << >>]
    /\ morphStateRef = [isMorphing |-> FALSE, startTime |-> 0, direction |-> "null"]
    /\ mouseInteractionStateRef = "none"
    /\ mouseInteractionStartTimeRef = 0
    /\ mouse = mouseFarAway
    /\ animationFrameIdRef = TRUE
    /\ frameRequests = 1
    /\ sourceImageUrl = "A"
    /\ currentImageUrl = "A"
    /\ targetImageUrl = "null"
    /\ pending = {SourceLoad("A", InitialMorphState, 1200)}
    /\ morphState = InitialMorphState
    /\ prevMorphState = InitialMorphState
    /\ morphDirection = "null"
    /\ vibrancy = 1200
    /\ animatedVibrancy = 1200
    /\ isMorphing = FALSE
    /\ events = << >>
    /\ thrown = FALSE
    /\ inputCount = 0
    /\ enablePushForce = TRUE
    /\ enableCollisions = TRUE
    /\ listeners = PointerListeners(TRUE)
    /\ rendererRef = TRUE
    /\ setupEffect = "active"
    /\ force = ForceProps

NextApp ==
    \/ \E dt \in TimeSteps : animateBasic(dt)
    \/ \E l \in pending : BasicSourceLoadComplete(l)
    \/ \E l \in pending : BasicTargetLoadComplete(l)
    \/ \E pos \in PointerPositions : handleMouseMove(pos)
    \/ handleMouseDown
    \/ handleMouseUp
    \/ handleToggleMorph
    \/ \E url \in ImageUrls : handleTargetImageUpload(url)
    \/ \E url \in ImageUrls : handleSourceImageUpload(url)

SpecApp == InitApp /\ [][NextApp]_vars

\* The same application once the user has chosen a target image other than the
\* source image: from then on the images stay as they are and the only input is the
\* Morph button; followed long enough for a morph and the morph back
FixedTargets == {"B", "E"}

InitToggle ==
    /\ now = 0
    /\ particlesRef = << >>
    /\ instancedMeshRef = FALSE
    /\ targetParticleDataRef = [null |-> TRUE, data |-> << >>]
    /\ morphStateRef = [isMorphing |-> FALSE, startTime |-> 0, direction |-> "null"]
    /\ mouseInteractionStateRef = "none"
    /\ mouseInteractionStartTimeRef = 0
    /\ mouse = mouseFarAway
    /\ animationFrameIdRef = TRUE
    /\ frameRequests = 1
    /\ sourceImageUrl = "A"
    /\ currentImageUrl = "A"
    /\ targetImageUrl \in FixedTargets
    /\ pending = {SourceLoad("A", InitialMorphState, 1200)}
                     \cup TargetLoads(targetImageUrl, InitialMorphState, 1200)
    /\ morphState = InitialMorphState
    /\ prevMorphState = InitialMorphState
    /\ morphDirection = "null"
    /\ vibrancy = 1200
    /\ animatedVibrancy = 1200
    /\ isMorphing = FALSE
    /\ events = << >>
    /\ thrown = FALSE
    /\ inputCount = 0
    /\ enablePushForce = TRUE
    /\ enableCollisions = TRUE
    /\ listeners = PointerListeners(TRUE)
    /\ rendererRef = TRUE
    /\ setupEffect = "active"
    /\ force = ForceProps

animateBasicRoundTrip(dt) == BasicFrame(dt, MaxRoundTripTime)

NextToggle ==
    \/ \E dt \in RoundTripSteps : animateBasicRoundTrip(dt)
    \/ \E l \in pending : BasicSourceLoadComplete(l)
    \/ \E l \in pending : BasicTargetLoadComplete(l)
    \/ handleToggleMorph

SpecToggle == InitToggle /\ [][NextToggle]_vars

\* the browser runs the requested frame, and a started image load calls back
ToggleFrameRuns == \E dt \in RoundTripSteps : requestAnimationFrame(dt, MaxRoundTripTime)

ToggleLoadCompletes ==
    \E l \in pending : BasicSourceLoadComplete(l) \/ BasicTargetLoadComplete(l)

SpecToggleFair ==
    /\ InitToggle
    /\ [][NextToggle]_vars
    /\ WF_now(ToggleFrameRuns)
    /\ WF_pending(ToggleLoadCompletes)

-----------------------------------------------------------------------------
(* Properties *)

IsCallback(e) == e.kind = "done"

\* a morphDirection the trigger effect took up: a start that follows a request, or
\* that starts a morph from rest
IsAcceptedRequest(e) == e.kind = "start" /\ (e.request \/ ~e.restart)

DirectionsOf(seq) == [i \in 1..Len(seq) |-> seq[i].dir]

ArrivalPosition(p, direction) ==
    IF direction = "toTarget" THEN p.targetPosition ELSE p.sourcePosition

ArrivalColor(p, direction) ==
    IF direction = "toTarget" THEN p.targetColor ELSE p.sourceColor

\* this step is a frame that got past the early-return guard of animate
FrameStep == now' # now /\ instancedMeshRef /\ Len(particlesRef) > 0

\* this step ends with onMorphComplete having been called
CompletionStep == Len(events') = Len(events) + 1 /\ events'[Len(events')].kind = "done"

\* this step is the morph trigger effect starting a morph
TriggerStep == Len(events') = Len(events) + 1 /\ events'[Len(events')].kind = "start"

\* C1: every accepted morph request is answered by exactly one onMorphComplete with
\* the requested direction: whenever the engine is back at rest, the callbacks made
\* so far are, one for one and in order, the directions of the accepted requests.
C1_EveryAcceptedRequestAnsweredOnce ==
    ~morphStateRef.isMorphing =>
        DirectionsOf(SelectSeq(events, IsCallback))
            = DirectionsOf(SelectSeq(events, IsAcceptedRequest))

\* C2: a morph trigger received while a morph is in progress is ignored: a step in
\* which morphDirection changes to a direction while isMorphing leaves isMorphing,
\* startTime, direction and every burstPosition, targetPosition and targetColor alone.
C2_TriggerWhileMorphingIgnored ==
    [][(morphStateRef.isMorphing /\ morphDirection' # morphDirection /\ morphDirection' # "null")
        => /\ morphStateRef' = morphStateRef
           /\ Len(particlesRef') = Len(particlesRef)
           /\ \A k \in 1..Len(particlesRef) :
                 /\ particlesRef'[k].burstPosition = particlesRef[k].burstPosition
                 /\ particlesRef'[k].targetPosition = particlesRef[k].targetPosition
                 /\ particlesRef'[k].targetColor = particlesRef[k].targetColor]_vars

\* C3: a morph request made while no target data is loaded is dropped and never
\* queued: no morph is started later without a request (by the arrival of data or
\* by a vibrancy change) unless a new request was made in between.
C3_DroppedRequestNeverStartsLater ==
    \A i \in 1..Len(events), j \in 1..Len(events) :
        ( /\ i < j
          /\ events[i].kind = "drop" /\ events[i].request /\ events[i].target = "null"
          /\ events[j].kind = "start" /\ ~events[j].request )
        => \E k \in (i + 1)..(j - 1) : events[k].request

\* C4: count invariance: after the first seeding no step changes the length of the
\* particle array or the identity of its particles, whatever the length of the data
\* a source or target load hands over; a target load never creates particles.
C4_CountInvariance ==
    [][ /\ instancedMeshRef =>
             /\ Len(particlesRef') = Len(particlesRef)
             /\ \A k \in 1..Len(particlesRef) : particlesRef'[k].id = particlesRef[k].id
        /\ (\E l \in pending : l.role = "target" /\ pending' = pending \ {l})
             => Len(particlesRef') = Len(particlesRef) ]_vars

\* three particles seeded from image A, re-sampled from the two points of image B
C4_Witness ==
    /\ instancedMeshRef
    /\ Len(particlesRef) = 3
    /\ particlesRef[1].sourcePosition = ImageB[1].position
    /\ particlesRef[3].sourcePosition = ImageB[1].position
    /\ ~targetParticleDataRef.null

\* C5: wraparound: when a source or target update, or the update at the start of a
\* morph, gets data with fewer points than there are particles, afterwards particle
\* i holds data[i mod len(data)] as its role position, its role base colour and,
\* with the vibrancy of the update applied, its role colour.
C5_Wraparound ==
    [][ /\ \A l \in pending :
              LET data == getImageParticleData(l.url)
              IN  ( /\ pending' = pending \ {l}
                    /\ instancedMeshRef
                    /\ 0 < Len(data) /\ Len(data) < Len(particlesRef) )
                  => \A k \in 1..Len(particlesRef) :
                        LET d == data[((k - 1) % Len(data)) + 1]
                            q == particlesRef'[k]
                        IN  IF l.role = "source"
                            THEN /\ q.sourcePosition = d.position
                                 /\ q.sourceBaseColor = d.color
                                 /\ q.sourceColor = applyVibrancy(d.color, l.vibrancy)
                            ELSE /\ q.targetPosition = d.position
                                 /\ q.targetBaseColor = d.color
                                 /\ q.targetColor = applyVibrancy(d.color, l.vibrancy)
        /\ LET data == targetParticleDataRef.data
           IN  (TriggerStep /\ Len(data) < Len(particlesRef))
               => \A k \in 1..Len(particlesRef) :
                     LET d == data[((k - 1) % Len(data)) + 1]
                         q == particlesRef'[k]
                     IN  /\ q.targetPosition = d.position
                         /\ q.targetBaseColor = d.color
                         /\ q.targetColor = applyVibrancy(d.color, vibrancy') ]_vars

\* three particles hold the two points of image B as target role: the third wraps
\* to the first point
C5_Witness ==
    /\ Len(particlesRef) = 3
    /\ particlesRef[1].targetPosition = ImageB[1].position
    /\ particlesRef[2].targetPosition = ImageB[2].position
    /\ particlesRef[3].targetPosition = ImageB[1].position
    /\ particlesRef[3].targetBaseColor = ImageB[1].color

\* C6: zero sampled points never make the component fail: in particular a morph
\* request with particles present and an empty loaded target throws nothing.
C6_EmptyTargetNeverThrows == ~thrown

\* C7: at morph completion every attractorPosition and currentColor is the arrival
\* role's value and isMorphing is false, already when onMorphComplete is called, and
\* the callback gets the direction of the morph.
C7_CompletionSnapsBeforeCallback ==
    [][ CompletionStep =>
          LET e == events'[Len(events')]
          IN  /\ e.idle
              /\ e.snapped
              /\ e.dir = morphStateRef.direction
              /\ now' - morphStateRef.startTime >= duration
              /\ ~morphStateRef'.isMorphing
              /\ \A k \in 1..Len(particlesRef) :
                    /\ particlesRef'[k].attractorPosition = ArrivalPosition(particlesRef'[k], e.dir)
                    /\ particlesRef'[k].currentColor = ArrivalColor(particlesRef'[k], e.dir) ]_vars

\* a morph to the target has completed: the third particle rests on the first point
\* of image B
C7_Witness ==
    /\ Len(events) > 0
    /\ events[Len(events)].kind = "done"
    /\ events[Len(events)].dir = "toTarget"
    /\ ~morphStateRef.isMorphing
    /\ Len(particlesRef) = 3
    /\ particlesRef[3].attractorPosition = ImageB[1].position

\* events i .. i+3 are a morph to the target, its completion, a morph to the source
\* and its completion
RoundTripAt(i) ==
    /\ events[i].kind = "start" /\ events[i].dir = "toTarget"
    /\ events[i + 1].kind = "done" /\ events[i + 1].dir = "toTarget"
    /\ events[i + 2].kind = "start" /\ events[i + 2].dir = "toSource"
    /\ events[i + 3].kind = "done" /\ events[i + 3].dir = "toSource"

\* C8: round trip: a morph to the target followed, after its completion, by a morph
\* to the source leaves at the second completion every attractorPosition equal to
\* the sourcePosition the particle had when the first morph started.
C8_RoundTrip ==
    \A i \in 1..(Len(events) - 3) : RoundTripAt(i) => events[i + 3].attr = events[i].src

\* both morphs of a round trip have completed, and the first one ended on the target
C8_Witness ==
    \E i \in 1..(Len(events) - 3) :
        /\ RoundTripAt(i)
        /\ events[i + 1].attr # events[i].src
        /\ Len(events[i].src) = 3

\* C9: one mode per frame: with the pointer state bursting or attracting at the
\* start of the frame, the frame only moves every particle by the pointer lerp and
\* leaves the morph alone (no attractor or morph colour update, no completion, no
\* forces); otherwise the morph update runs first and the force integrator then
\* works on the attractors it left.
C9_OneModePerTick ==
    [][ FrameStep =>
          IF mouseInteractionStateRef # "none"
          THEN /\ morphStateRef' = morphStateRef
               /\ events' = events
               /\ \A k \in 1..Len(particlesRef) :
                     LET p == particlesRef[k]
                         q == particlesRef'[k]
                         goal == IF mouseInteractionStateRef = "bursting"
                                 THEN p.mouseBurstPosition
                                 ELSE VAdd(mouse, p.sphereTargetPosition)
                         factor == IF mouseInteractionStateRef = "bursting"
                                   THEN burstLerpFactor ELSE attractLerpFactor
                     IN  /\ q.attractorPosition = p.attractorPosition
                         /\ morphStateRef.isMorphing => q.currentColor = p.currentColor
                         /\ q.currentPosition = lerpVectors(p.currentPosition, goal, factor)
                         /\ q.velocity = VSub(q.currentPosition, p.currentPosition)
          ELSE /\ IF ~morphStateRef.isMorphing
                  THEN /\ events' = events
                       /\ \A k \in 1..Len(particlesRef) :
                             particlesRef'[k].attractorPosition = particlesRef[k].attractorPosition
                  ELSE IF now' - morphStateRef.startTime >= duration
                  THEN CompletionStep /\ ~morphStateRef'.isMorphing
                  ELSE /\ events' = events
                       /\ \A k \in 1..Len(particlesRef) :
                             particlesRef'[k].attractorPosition =
                                 MorphAttractor(particlesRef[k], k - 1, Len(particlesRef),
                                                now' - morphStateRef.startTime,
                                                morphStateRef.direction)
               /\ particlesRef' =
                      ForceIntegrator(
                          [k \in 1..Len(particlesRef) |->
                              [particlesRef'[k] EXCEPT
                                  !.currentPosition = particlesRef[k].currentPosition,
                                  !.velocity = particlesRef[k].velocity]],
                          mouse) ]_vars

\* a frame of the pointer override has run while a morph was in progress
C9_Witness ==
    /\ mouseInteractionStateRef = "attracting"
    /\ morphStateRef.isMorphing
    /\ now > mouseInteractionStartTimeRef
    /\ now > morphStateRef.startTime
    /\ Len(particlesRef) = 3
    /\ particlesRef[1].velocity # Zero3

\* C10: the pointer does not hold back the completion of a morph: every frame (past
\* the guard) that finds a morph with elapsed time >= duration completes it, whatever
\* the pointer state.
C10_PointerDoesNotDelayCompletion ==
    [][ (FrameStep /\ morphStateRef.isMorphing /\ now' - morphStateRef.startTime >= duration)
        => (CompletionStep /\ ~morphStateRef'.isMorphing) ]_vars

\* the cleanup of the setup effect has run
CleanupHasRun == \E i \in 1..Len(events) : events[i].kind = "cleanup"

\* C11: every option, the booleans enablePushForce and enableCollisions included, can
\* be changed while running without a restart: a step that changes one of them
\* leaves the frame loop scheduled and the pointer listeners registered.
C11_OptionChangeKeepsRunning ==
    [][ (enablePushForce' # enablePushForce \/ enableCollisions' # enableCollisions)
        => /\ animationFrameIdRef'
           /\ PointerListeners(enablePushForce') \subseteq listeners' ]_vars

\* C12: destroying the effect halts the frame loop: once the cleanup of the setup
\* effect has run no call of animate executes (the clock of the frames stands still),
\* whatever frame was pending and whatever image loads complete afterwards.
C12_CleanupHaltsTicks ==
    [][ CleanupHasRun => now' = now ]_vars

\* the component was removed before any image had loaded, a source load has completed
\* since, and there is time left in which the cancelled frame would have run
C12_Witness ==
    /\ setupEffect = "unmounted"
    /\ \E i \in 1..Len(events) : events[i].kind = "cleanup" /\ Len(events[i].attr) = 0
    /\ Len(particlesRef) > 0
    /\ now + 1000 <= MaxTime

\* this step is one of the pointer listeners: an input that changes no prop
PointerEventStep ==
    /\ inputCount' = inputCount + 1
    /\ UNCHANGED <<morphState, vibrancy, sourceImageUrl, targetImageUrl, setupVars>>

\* C13: the pointer handlers (move, press, release) write only the pointer coordinate
\* and the interaction state with its start time: no handler changes any field of
\* any particle.
C13_PointerHandlersLeaveParticles ==
    [][ PointerEventStep => particlesRef' = particlesRef ]_vars

\* the role the field rests in: none during a morph, else the arrival role of the
\* last completed morph, the source role before any morph has completed
RestRole ==
    IF morphStateRef.isMorphing THEN "none"
    ELSE LET done == SelectSeq(events, IsCallback)
         IN  IF Len(done) = 0 THEN "source"
             ELSE IF done[Len(done)].dir = "toTarget" THEN "target" ELSE "source"

HomePosition(p, role) == IF role = "target" THEN p.targetPosition ELSE p.sourcePosition

\* C14: a source or target re-sample never changes a velocity, and changes
\* attractorPosition only when the field is at rest in the role being updated, in
\* which case every attractor is set to the freshly sampled home; in every other
\* case (rest in the other role, or a morph in progress) the attractors are untouched.
C14_ResampleRefreshesAttractorOnlyAtRest ==
    [][ \A l \in pending \ pending' :
          (Len(particlesRef) > 0 /\ Len(particlesRef') = Len(particlesRef)) =>
             /\ \A k \in 1..Len(particlesRef) :
                   particlesRef'[k].velocity = particlesRef[k].velocity
             /\ IF RestRole = l.role /\ Len(getImageParticleData(l.url)) > 0
                THEN \A k \in 1..Len(particlesRef) :
                        particlesRef'[k].attractorPosition
                            = HomePosition(particlesRef'[k], l.role)
                ELSE \A k \in 1..Len(particlesRef) :
                        particlesRef'[k].attractorPosition
                            = particlesRef[k].attractorPosition ]_vars

\* the sample with 0-based index i mod len(data)
SampleOf(data, i) == data[(i % Len(data)) + 1]

\* this step maps data of a length other than the particle count onto the particles
\* in the given role
MismatchedUpdate(data, role) ==
    /\ Len(particlesRef) > 0
    /\ Len(data) > 0
    /\ Len(data) # Len(particlesRef)

\* C15 as stated: a length mismatch is resolved by wraparound, never by truncation
\* and never by resizing, whether the data is shorter or longer than the particle
\* array, so that no sampled point is discarded: every sample of the new data is the
\* home of some particle after the update.
C15_NoSampleDiscarded ==
    [][ \A l \in pending \ pending' :
          LET data == getImageParticleData(l.url)
          IN  MismatchedUpdate(data, l.role) =>
                 /\ Len(particlesRef') = Len(particlesRef)
                 /\ \A i \in 1..Len(data) : \E k \in 1..Len(particlesRef') :
                        HomePosition(particlesRef'[k], l.role) = data[i].position ]_vars

\* C15 as amended: a length mismatch never resizes the particle array, and particle
\* i takes the sample i mod len(data), whether the data is shorter or longer than
\* the particle array, in the source update, the target update and the update at
\* the start of a morph.
C15_IndexMapping ==
    [][
       /\ \A l \in pending \ pending' :
             LET data == getImageParticleData(l.url)
             IN  MismatchedUpdate(data, l.role) =>
                    /\ Len(particlesRef') = Len(particlesRef)
                    /\ \A k \in 1..Len(particlesRef) :
                           HomePosition(particlesRef'[k], l.role)
                               = SampleOf(data, k - 1).position
       /\ (TriggerStep /\ MismatchedUpdate(targetParticleDataRef.data, "target")) =>
             /\ Len(particlesRef') = Len(particlesRef)
             /\ \A k \in 1..Len(particlesRef) :
                    particlesRef'[k].targetPosition
                        = SampleOf(targetParticleDataRef.data, k - 1).position ]_vars

\* the two particles seeded from image B have taken the first two of the three
\* samples of image A as their source homes
C15_Witness ==
    /\ Len(particlesRef) = 2
    /\ \A k \in 1..2 : particlesRef[k].sourcePosition = ImageA[k].position

\* C16: the pointer interaction state changes in exactly these ways: a press sets
\* bursting with start time now from any state, morph or no morph; bursting turns to
\* attracting in a frame whose time since the press exceeds 400 ms, and only in
\* such a frame; a release sets none from any state.  Attracting is never entered
\* from none, and the state returns to none only by a release.
C16_PointerStateMachine ==
    [][
       /\ handlePointerDown =>
              /\ mouseInteractionStateRef' = "bursting"
              /\ mouseInteractionStartTimeRef' = now
       /\ handlePointerUp =>
              mouseInteractionStateRef' = "none"
       /\ (FrameStep /\ mouseInteractionStateRef = "bursting") =>
              mouseInteractionStateRef' =
                  IF now' - mouseInteractionStartTimeRef > mouseInteractionBurstDuration
                  THEN "attracting" ELSE "bursting"
       /\ (mouseInteractionStateRef' = "attracting" /\ mouseInteractionStateRef # "attracting") =>
              /\ mouseInteractionStateRef = "bursting"
              /\ FrameStep
              /\ now' - mouseInteractionStartTimeRef > mouseInteractionBurstDuration
       /\ (mouseInteractionStateRef' = "bursting" /\ mouseInteractionStateRef # "bursting") =>
              (PointerEventStep /\ now' = now /\ mouseInteractionStartTimeRef' = now)
       /\ (mouseInteractionStateRef' = "none" /\ mouseInteractionStateRef # "none") =>
              (PointerEventStep /\ now' = now)
       /\ (mouseInteractionStartTimeRef' # mouseInteractionStartTimeRef) =>
              mouseInteractionStateRef' = "bursting" ]_vars

\* a press made during a morph is still bursting in the frame that runs exactly
\* 400 ms after it
C16_Witness ==
    /\ mouseInteractionStateRef = "bursting"
    /\ now = mouseInteractionStartTimeRef + mouseInteractionBurstDuration
    /\ morphStateRef.isMorphing
    /\ Len(particlesRef) > 0
    /\ \E k \in 1..Len(particlesRef) : particlesRef[k].velocity # Zero3

\* the calls of handleCollisions on record
Passes == { events[n] : n \in { m \in 1..Len(events) : events[m].kind = "pass" } }

\* the loop body found the pair overlapping and corrected it
IsResolved(e) == e.before > 0 /\ e.before < collisionDist(particleSize) * collisionDist(particleSize)

\* C17: for every pair that collision resolution resolves, the distance between the
\* two particles right after that pair's positional correction is at least their
\* distance right before it.
C17_PairMovesApart ==
    \A pass \in Passes : \A n \in 1..Len(pass.log) :
        IsResolved(pass.log[n]) => pass.log[n].after >= pass.log[n].before

\* a call has resolved a pair and has moved it apart
C17_Witness ==
    \E pass \in Passes : \E n \in 1..Len(pass.log) :
        IsResolved(pass.log[n]) /\ pass.log[n].after > pass.log[n].before

\* C18: at the end of one complete pass every pair resolved during the pass is at a
\* distance at least the distance it had at the start of the pass, also when a
\* particle takes part in several resolved pairs.
C18_PassMovesApart ==
    \A pass \in Passes : \A n \in 1..Len(pass.log) :
        LET e == pass.log[n]
        IN  IsResolved(e) =>
               distanceToSquared(pass.to[e.p1], pass.to[e.p2])
                   >= distanceToSquared(pass.from[e.p1], pass.from[e.p2])

\* C19: in one pass every unordered pair is examined at most once and in the
\* orientation p1.id < p2.id, and no pair is skipped whose distance lies in
\* (0, 2 * particleSize) when the outer loop reaches its first particle, also after
\* earlier corrections of the pass have moved particles away from the cells the
\* grid holds them in.
C19_EveryClosePairExaminedOnce ==
    \A pass \in Passes :
        /\ \A n \in 1..Len(pass.log) :
               /\ pass.log[n].p1 < pass.log[n].p2
               /\ \A m \in 1..Len(pass.log) :
                      (pass.log[m].p1 = pass.log[n].p1 /\ pass.log[m].p2 = pass.log[n].p2)
                          => m = n
        /\ \A i \in 1..Len(pass.starts) : \A j \in (i + 1)..Len(pass.starts) :
               LET distanceSq == distanceToSquared(pass.starts[i][i], pass.starts[i][j])
               IN  (distanceSq > 0
                       /\ distanceSq < collisionDist(particleSize) * collisionDist(particleSize))
                   => \E n \in 1..Len(pass.log) :
                         pass.log[n].p1 = i /\ pass.log[n].p2 = j

\* the runs of the push block on record
Pushes == { events[n] : n \in { m \in 1..Len(events) : events[m].kind = "push" } }

\* v is, on every axis, the value of diff / d * pushStrength * (pushRadius - d) / pushRadius
\* cut to a whole number
IsPushIncrement(v, diff, d) ==
    \A c \in 1..3 :
        /\ Abs(v[c] * pushRadius * d * One - diff[c] * (pushRadius - d) * pushStrength)
               < pushRadius * d * One
        /\ v[c] * diff[c] >= 0

\* C20: in a normal frame with push enabled the particles that receive a push are
\* exactly those at a distance d from the pointer with 0 < d < pushRadius, whatever
\* grid cell they lie in: each of them gains a velocity directed away from the
\* pointer of magnitude pushStrength * (pushRadius - d) / pushRadius, and every
\* other particle keeps its velocity.
C20_PushMatchesBruteForce ==
    \A push \in Pushes : \A k \in 1..Len(push.position) :
        LET diff == VSub(push.position[k], push.pos)
            distanceSq == VDot(diff, diff)
            increment == VSub(push.to[k], push.from[k])
        IN  IF distanceSq > 0 /\ distanceSq < pushRadius * pushRadius
            THEN IsPushIncrement(increment, diff, Sqrt(distanceSq))
            ELSE increment = Zero3

\* one run has pushed a particle that lies inside the radius in a cell next to the
\* cell of the pointer, and has left alone a particle exactly pushRadius away
C20_Witness ==
    \E push \in Pushes : \E k, m \in 1..Len(push.position) :
        /\ CellOf(push.position[k], pushRadius) # CellOf(push.pos, pushRadius)
        /\ distanceToSquared(push.position[k], push.pos) < pushRadius * pushRadius
        /\ push.to[k] # push.from[k]
        /\ distanceToSquared(push.position[m], push.pos) = pushRadius * pushRadius
        /\ push.to[m] = push.from[m]

\* the distance within which the particles are to arrive, in thousandths of a world
\* unit, and the speed they are to fall below
DampingEpsilon == 100

\* every particle is within DampingEpsilon of its attractor on every axis, and slower
\* than DampingEpsilon per frame
Settled ==
    \A k \in 1..Len(particlesRef) : \A c \in 1..3 :
        /\ Abs(particlesRef[k].currentPosition[c] - particlesRef[k].attractorPosition[c])
               <= DampingEpsilon
        /\ Abs(particlesRef[k].velocity[c]) <= DampingEpsilon

Samples == { events[n] : n \in { m \in 1..Len(events) : events[m].kind = "sample" } }

DepartureHome(s, k) == IF s.dir = "toTarget" THEN s.source[k] ELSE s.target[k]

ArrivalHome(s, k) == IF s.dir = "toTarget" THEN s.target[k] ELSE s.source[k]

\* C22: for a morph of 4000 ms with phases 1300/1300/1400 a normal frame at elapsed
\* time t completes the morph iff t >= 4000, and otherwise moves the attractor along
\* the first leg (departure home to burst position) iff t < 1300, along the second
\* (burst position to sphere waypoint) iff 1300 <= t < 2600 and along the third
\* (sphere waypoint to arrival home, with the swirl) iff 2600 <= t < 4000; at
\* t = 0, 1300, 2600 and 4000 the attractor is the departure home, the burst
\* position, the sphere waypoint and the arrival home.
C22_PhaseBoundaries ==
    \A s \in Samples : \A k \in 1..Len(s.attr) :
        LET t == s.elapsedTime
        IN  /\ s.completed <=> t >= 4000
            /\ s.morphing <=> t < 4000
            /\ (0 <= t /\ t < 1300) =>
                   s.attr[k] = lerpVectors(DepartureHome(s, k), s.burst[k],
                                           easeInOutCubic((t * One) \div 1300))
            /\ (1300 <= t /\ t < 2600) =>
                   s.attr[k] = lerpVectors(s.burst[k], s.sphere[k],
                                           easeInOutCubic(((t - 1300) * One) \div 1300))
            /\ (2600 <= t /\ t < 4000) =>
                   s.attr[k] = SwirlPosition(s.sphere[k], ArrivalHome(s, k),
                                             easeInOutCubic(((t - 2600) * One) \div 1400))
            /\ t = 0 => s.attr[k] = DepartureHome(s, k)
            /\ t = 1300 => s.attr[k] = s.burst[k]
            /\ t = 2600 => s.attr[k] = s.sphere[k]
            /\ t >= 4000 => s.attr[k] = ArrivalHome(s, k)

\* frames have sampled a morph back to the source at the border of the second and
\* the third phase: the attractors are on the sphere waypoints, away from the burst
\* positions and from both homes
C22_Witness ==
    \E s \in Samples :
        /\ s.dir = "toSource"
        /\ s.elapsedTime = 2600
        /\ \A k \in 1..Len(s.attr) :
               /\ s.attr[k] = s.sphere[k]
               /\ s.attr[k] # s.burst[k]
               /\ s.attr[k] # s.source[k]
               /\ s.attr[k] # s.target[k]

\* this step is the callback of load l running the update of its role on particles
\* that exist already
UpdateStep(l) ==
    /\ l \in pending /\ pending' = pending \ {l}
    /\ Len(particlesRef) > 0
    /\ Len(getImageParticleData(l.url)) > 0
    /\ l.role = "source" => instancedMeshRef

\* C23: the source update and the target update are idempotent: applying the same
\* sampled data once more, with the same vibrancy and the same rest state, to the
\* particles an update has left changes no field of any particle.
C23_UpdatesIdempotent ==
    [][ \A l \in pending :
          UpdateStep(l) =>
             LET data == getImageParticleData(l.url)
                 again == IF l.role = "source"
                          THEN updateSource(particlesRef', data, l.vibrancy, l.morphState,
                                            morphStateRef'.isMorphing)
                          ELSE updateTarget(particlesRef', data, l.vibrancy, l.morphState,
                                            morphStateRef'.isMorphing)
             IN  again = particlesRef' ]_vars

\* a source update with a vibrancy other than the one the particles were seeded with
\* has re-sampled three resting particles from the two points of image B
C23_Witness ==
    /\ instancedMeshRef
    /\ Len(particlesRef) = 3
    /\ \A k \in 1..3 :
           /\ particlesRef[k].sourceBaseColor = SampleOf(ImageB, k - 1).color
           /\ particlesRef[k].sourceColor = applyVibrancy(SampleOf(ImageB, k - 1).color, 1500)
           /\ particlesRef[k].attractorPosition = SampleOf(ImageB, k - 1).position
           /\ particlesRef[k].currentColor = particlesRef[k].sourceColor

\* this step is an accepted press of the Morph button
AcceptedPress == isMorphing' /\ ~isMorphing

\* C24: in the application, with a fixed source image and a fixed, different target
\* image, the accepted presses of the Morph button request toTarget, toSource,
\* toTarget, ... in strict alternation, the first being toTarget, and after each
\* completion the image shown is the arrival image of that morph.
C24_MorphBackAndForth ==
    [][
       /\ AcceptedPress =>
              morphDirection' = IF inputCount % 2 = 0 THEN "toTarget" ELSE "toSource"
       /\ CompletionStep =>
              /\ ~isMorphing'
              /\ currentImageUrl' = IF events'[Len(events')].dir = "toTarget"
                                    THEN targetImageUrl ELSE sourceImageUrl ]_vars

\* two presses have been accepted, both morphs have completed, and the source image
\* is shown again
C24_Witness ==
    /\ inputCount = 2
    /\ ~isMorphing
    /\ currentImageUrl = sourceImageUrl
    /\ targetImageUrl # sourceImageUrl
    /\ DirectionsOf(SelectSeq(events, IsCallback)) = << "toTarget", "toSource" >>

\* this step is a release that ends a pointer interaction
ReleaseStep ==
    /\ PointerEventStep
    /\ mouseInteractionStateRef # "none"
    /\ mouseInteractionStateRef' = "none"

\* C25: a release changes only the interaction state, to none: it changes no
\* velocity, position, attractor or colour, so the velocity the last frame of the
\* override wrote is the velocity the first normal frame after the release finds.
C25_ReleaseKeepsVelocity ==
    [][ ReleaseStep =>
          /\ particlesRef' = particlesRef
          /\ UNCHANGED <<now, morphStateRef, mouseInteractionStartTimeRef, mouse,
                         animatedVibrancy, events>> ]_vars

\* a press, frames of the override, and a release: the pointer state is none and
\* every particle still has the velocity of the last lerp toward its burst position
C25_Witness ==
    /\ mouseInteractionStateRef = "none"
    /\ inputCount = 2
    /\ now > mouseInteractionStartTimeRef
    /\ Len(particlesRef) > 0
    /\ \A k \in 1..Len(particlesRef) :
           LET p == particlesRef[k]
               before == VSub(p.currentPosition, p.velocity)
           IN  /\ p.velocity # Zero3
               /\ p.mouseBurstPosition # Zero3
               /\ p.currentPosition = lerpVectors(before, p.mouseBurstPosition, burstLerpFactor)
               /\ p.currentPosition # p.attractorPosition

\* C26: a frame raises the colour flag of the mesh if and only if it handles an
\* event that changes some currentColor (a morph in progress, a morph completion, a
\* vibrancy change): a frame that changes positions only never raises it, and no
\* frame changes a currentColor without raising it, frames taken while the pointer
\* interaction is active included.
C26_ColorFlagFollowsColorChange ==
    [][ FrameStep =>
          LET f == AnimateFrame(now')
              colorChanged == \E k \in 1..Len(particlesRef) :
                                  particlesRef'[k].currentColor # particlesRef[k].currentColor
              vibrancyChanged == Abs(animatedVibrancy' - animatedVibrancy) > 1
          IN  /\ colorChanged => f.colorUpload
              /\ f.colorUpload => (vibrancyChanged \/ morphStateRef.isMorphing) ]_vars

\* C27: zero distances are skipped: the loop body of handleCollisions writes to
\* neither particle of a pair it finds at exactly the same position, and a particle
\* exactly at the pointer gets no push, from the grid query as from the brute-force
\* loop of the stand-alone component; no division by a zero distance takes place.
C27_ZeroDistanceSkipped ==
    /\ \A pass \in Passes : \A n \in 1..Len(pass.log) :
           pass.log[n].before = 0 => (~pass.log[n].moved /\ pass.log[n].after = 0)
    /\ \A push \in Pushes : \A k \in 1..Len(push.position) :
           push.position[k] = push.pos => push.to[k] = push.from[k]
    /\ \A k \in 1..Len(particlesRef) :
           particlesRef[k].currentPosition = mouse =>
               BasicForces(particlesRef, mouse, "none")[k]
                   = BasicForces(particlesRef, mouse, "bursting")[k]

\* a call of handleCollisions has found two moving particles on one point and has
\* resolved another pair, after the push block had run with a particle on the pointer
C27_Witness ==
    \E pass \in Passes : \E n, m \in 1..Len(pass.log) :
        /\ pass.log[n].before = 0
        /\ pass.from[pass.log[n].p1] = pass.from[pass.log[n].p2]
        /\ pass.log[m].moved
        /\ \E k \in 1..Len(particlesRef) :
               /\ pass.from[k] = mouse
               /\ particlesRef[k].velocity # Zero3

\* every component of the vector lies in [-radius/2, radius/2)
InBurstCube(v, radius) ==
    \A c \in 1..3 : -(radius \div 2) <= v[c] /\ v[c] < radius \div 2

\* C28: on entry to a morph, in both directions, every particle's burstPosition is
\* its home in the departure role (sourcePosition for toTarget, targetPosition for
\* toSource) plus an offset with every component in [-150, 150).
C28_BurstAroundDepartureHome ==
    [][ TriggerStep =>
          \A k \in 1..Len(particlesRef') :
              LET p == particlesRef'[k]
                  home == IF morphStateRef'.direction = "toTarget"
                          THEN p.sourcePosition ELSE p.targetPosition
              IN  InBurstCube(VSub(p.burstPosition, home), morphBurstRadius) ]_vars

\* the sample of the loaded target data that particle k (1-based) is mapped to:
\* data[i] for i < len, data[i mod len] otherwise, with i = k - 1
MappedSample(data, k) ==
    IF k - 1 < Len(data) THEN data[k] ELSE data[((k - 1) % Len(data)) + 1]

\* C29: at the moment a morph starts, every particle's targetPosition and
\* targetColor are those of the wraparound mapping of the target data loaded last
\* (the colour with the vibrancy of the render applied), whether that data was
\* loaded before or after the particles were seeded.
C29_TargetRoleAtMorphStart ==
    [][ TriggerStep =>
          \A k \in 1..Len(particlesRef') :
              LET d == MappedSample(targetParticleDataRef'.data, k)
                  p == particlesRef'[k]
              IN  /\ p.targetPosition = d.position
                  /\ p.targetBaseColor = d.color
                  /\ p.targetColor = applyVibrancy(d.color, vibrancy') ]_vars

\* a morph has just started with more particles than target samples, and the
\* trigger effect found the particles with a target role that was not the mapping
\* of the loaded data: the target had been loaded before the particles were seeded
C29_Witness ==
    /\ Len(events) > 0
    /\ events[Len(events)].kind = "start"
    /\ morphStateRef.isMorphing
    /\ morphStateRef.startTime = now
    /\ Len(particlesRef) > Len(targetParticleDataRef.data)
    /\ \E k \in 1..Len(particlesRef) :
           events[Len(events)].targetRole[k] # particlesRef[k].targetPosition

\* the push on one particle, from its distance to the pointer alone
TickPushForce(p, pos) ==
    LET diff == VSub(p.currentPosition, pos)
        distanceSq == VDot(diff, diff)
        distance == Sqrt(distanceSq)
    IN  IF enablePushForce /\ distanceSq > 0 /\ distanceSq < pushRadius * pushRadius
        THEN VMulDiv(diff, Mul(pushRadius - distance, pushStrength), pushRadius * distance)
        ELSE Zero3

\* return force, push, damping and integration, in this order, on every particle
TickIntegrated(ps, pos) ==
    [k \in 1..Len(ps) |->
        LET returnForce == VScale(VSub(ps[k].attractorPosition, ps[k].currentPosition),
                                  force.returnStrength)
            v == VScale(VAdd(VAdd(ps[k].velocity, returnForce), TickPushForce(ps[k], pos)),
                        force.damping)
        IN  [ps[k] EXCEPT !.velocity = v, !.currentPosition = VAdd(ps[k].currentPosition, v)]]

Ticks == { events[n] : n \in { m \in 1..Len(events) : events[m].kind = "tick" } }

\* C30: a normal tick gives every particle velocity' = (velocity + (attractorPosition
\* - currentPosition) * returnStrength + pushForce) * damping and currentPosition' =
\* currentPosition + velocity', the push taken from the position before the tick;
\* the collisions, when enabled, are resolved once, on the positions and velocities
\* of all the particles after that integration.
C30_NormalTick ==
    \A tick \in Ticks :
        LET integrated == TickIntegrated(tick.from, tick.pos)
        IN  particlesRef = IF enableCollisions
                           THEN handleCollisions(integrated, particleSize)
                           ELSE integrated

\* a frame has run on particles of which one was pushed, one was pulled by its
\* attractor and one was moving, and the collisions then moved the integrated
\* particles apart
C30_Witness ==
    \E tick \in Ticks :
        LET integrated == TickIntegrated(tick.from, tick.pos)
        IN  /\ enableCollisions
            /\ particlesRef # integrated
            /\ \E k \in 1..Len(tick.from) : TickPushForce(tick.from[k], tick.pos) # Zero3
            /\ \E k \in 1..Len(tick.from) :
                   /\ tick.from[k].velocity # Zero3
                   /\ VScale(VSub(tick.from[k].attractorPosition, tick.from[k].currentPosition),
                             force.returnStrength) # Zero3

\* a frame that runs with the pointer down
OverrideStep == FrameStep /\ mouseInteractionStateRef # "none"

\* C31: in a pointer-override tick every particle moves by factor 0.08 toward its
\* mouseBurstPosition if the state at the start of the tick was bursting (the tick
\* that switches the state to attracting included), or by factor 0.04 toward
\* pointer position + sphereTargetPosition if it was attracting; its velocity is
\* the new position minus the old one; attractorPosition, the two home positions
\* and the morph state are left as they were.
C31_PointerOverrideTick ==
    [][ OverrideStep =>
          /\ morphStateRef' = morphStateRef
          /\ Len(particlesRef') = Len(particlesRef)
          /\ \A k \in 1..Len(particlesRef) :
                 LET p == particlesRef[k]
                     q == particlesRef'[k]
                     goal == IF mouseInteractionStateRef = "bursting"
                             THEN p.mouseBurstPosition
                             ELSE VAdd(mouse, p.sphereTargetPosition)
                     factor == IF mouseInteractionStateRef = "bursting" THEN 80 ELSE 40
                 IN  /\ \A c \in 1..3 :
                            q.currentPosition[c] =
                                p.currentPosition[c]
                                    + TDiv((goal[c] - p.currentPosition[c]) * factor, 1000)
                     /\ q.velocity = VSub(q.currentPosition, p.currentPosition)
                     /\ q.attractorPosition = p.attractorPosition
                     /\ q.sourcePosition = p.sourcePosition
                     /\ q.targetPosition = p.targetPosition ]_vars

\* a morph is in progress, the pointer has been down for a second and is in the
\* attracting state, which only a tick in the bursting state sets, and a tick in
\* the attracting state has left a particle on the move
C31_Witness ==
    /\ mouseInteractionStateRef = "attracting"
    /\ now - mouseInteractionStartTimeRef >= 1000
    /\ morphStateRef.isMorphing
    /\ \E k \in 1..Len(particlesRef) : particlesRef[k].velocity # Zero3

\* C32: while the component is mounted at most one animation-frame callback is
\* pending at any time, so no two ticks overlap; a re-run of the setup effect after
\* a prop change never leaves two tick loops running.
C32_OneFramePending ==
    setupEffect # "unmounted" => (0 <= frameRequests /\ frameRequests <= 1)

\* frames have run, enablePushForce was then changed and the setup effect has run
\* again: its cleanup cancelled the pending frame and its body returned at
\* isInitialized
C32_Witness ==
    /\ now > 0
    /\ setupEffect = "cleaned"
    /\ ~enablePushForce
    /\ rendererRef
    /\ frameRequests = 0

\* C33: a tick that runs while no particles exist never blocks: it requests the
\* next frame and returns without changing a particle, the morph state or the
\* pointer-interaction state; the first tick after the seeding runs the simulation.
C33_EmptyTickOnlyReschedules ==
    [][ now' # now =>
          /\ animationFrameIdRef' /\ frameRequests' = 1
          /\ IF ~instancedMeshRef \/ Len(particlesRef) = 0
             THEN /\ particlesRef' = particlesRef
                  /\ morphStateRef' = morphStateRef
                  /\ mouseInteractionStateRef' = mouseInteractionStateRef
                  /\ events' = events
             ELSE LET f == AnimateFrame(now')
                  IN  /\ particlesRef' = f.particles
                      /\ morphStateRef' = f.morph
                      /\ mouseInteractionStateRef' = f.mouseState ]_vars

\* the pointer was pressed before the source image was sampled, and a tick has run
\* more than 400 ms later with no particle: the pointer is still bursting and the
\* next frame is requested
C33_Witness ==
    /\ Len(particlesRef) = 0
    /\ mouseInteractionStateRef = "bursting"
    /\ now - mouseInteractionStartTimeRef > 400
    /\ animationFrameIdRef
    /\ frameRequests = 1

\* the pairs that the loop body of handleCollisions resolved
ResolvedPairs ==
    { e \in UNION { { pass.log[n] : n \in 1..Len(pass.log) } : pass \in Passes } :
        e.before > 0 /\ e.before < collisionDist(particleSize) * collisionDist(particleSize) }

\* p1.currentPosition - p2.currentPosition, the direction of the collision normal
PairNormal(e) == VSub(e.from[1].currentPosition, e.from[2].currentPosition)

\* C34: a resolved pair gets a velocity impulse only when the two particles are
\* approaching along the collision normal; after the impulse the relative velocity
\* along the normal is -0.5 times what it was (to 0.005 units per frame, the
\* precision of the velocities), the impulse is added to one particle and
\* subtracted from the other, and a separating pair keeps its velocities.
C34_ImpulseOnApproach ==
    \A e \in ResolvedPairs :
        LET diff == PairNormal(e)
            distance == Sqrt(e.before)
            before == VDot(VSub(e.from[1].velocity, e.from[2].velocity), diff)
            after == VDot(VSub(e.to[1].velocity, e.to[2].velocity), diff)
        IN  IF before > 0
            THEN e.to[1].velocity = e.from[1].velocity /\ e.to[2].velocity = e.from[2].velocity
            ELSE /\ VSub(e.to[1].velocity, e.from[1].velocity)
                        = VSub(e.from[2].velocity, e.to[2].velocity)
                 /\ Abs(2 * after + before) <= 2 * 5 * distance

\* a call has resolved an approaching pair whose normal lies along no axis, and the
\* impulse has changed both velocities
C34_Witness ==
    \E e \in ResolvedPairs :
        LET diff == PairNormal(e)
        IN  /\ diff[1] # 0 /\ diff[2] # 0
            /\ VDot(VSub(e.from[1].velocity, e.from[2].velocity), diff) < -1000
            /\ e.to[1].velocity # e.from[1].velocity
            /\ e.to[2].velocity # e.from[2].velocity

\* every pair the loop body of handleCollisions has looked at
ExaminedPairs == UNION { { pass.log[n] : n \in 1..Len(pass.log) } : pass \in Passes }

\* C38: resolving a colliding pair preserves the pair's centroid and its total
\* momentum: the sum of the two positions and the sum of the two velocities are
\* the same after the pair's correction and impulse as before, and no particle
\* outside the pair is modified.
C38_PairCentroidAndMomentum ==
    \A e \in ExaminedPairs :
        /\ VAdd(e.to[1].currentPosition, e.to[2].currentPosition)
               = VAdd(e.from[1].currentPosition, e.from[2].currentPosition)
        /\ VAdd(e.to[1].velocity, e.to[2].velocity)
               = VAdd(e.from[1].velocity, e.from[2].velocity)
        /\ e.others

\* one call has resolved two pairs, so that each resolution had a third particle
\* within reach, and one of them has moved its particles and changed their velocities
C38_Witness ==
    \E pass \in Passes : \E n, m \in 1..Len(pass.log) :
        /\ n # m
        /\ pass.log[m].moved
        /\ pass.log[n].to[1].currentPosition # pass.log[n].from[1].currentPosition
        /\ pass.log[n].to[2].currentPosition # pass.log[n].from[2].currentPosition
        /\ pass.log[n].to[1].velocity # pass.log[n].from[1].velocity
        /\ pass.log[n].to[2].velocity # pass.log[n].from[2].velocity

\* the clock leaves room for a whole morph and the frame that completes it
TimeForAMorph == now + duration + 2000 <= MaxRoundTripTime

\* C35: every time the host sets morphDirection to a non-null value,
\* onMorphComplete is eventually called and the host is idle again (morphDirection
\* null, App.isMorphing false), as long as frames keep running, also when the
\* request was made before the target image data had been loaded.
C35_RequestEventuallyAnswered ==
    (morphDirection # "null" /\ TimeForAMorph) ~> (morphDirection = "null" /\ ~isMorphing)


\* the callbacks onMorphComplete made so far
CompletedMorphs == SelectSeq(events, IsCallback)

\* C36: while the field is at rest after a completed morph with direction d, every
\* particle's currentColor is the colour of the arrival role (targetColor for
\* toTarget, sourceColor for toSource), also after vibrancy changes and role
\* re-samplings handled at rest.
C36_RestColourIsArrivalColour ==
    (instancedMeshRef /\ ~morphStateRef.isMorphing /\ Len(CompletedMorphs) > 0)
        => \A k \in 1..Len(particlesRef) :
               particlesRef[k].currentColor =
                   ArrivalColor(particlesRef[k], CompletedMorphs[Len(CompletedMorphs)].dir)


\* every particle holds, in the source role, the wraparound sample of the image: the
\* position and the colour as sampled
SourceRoleReflects(url) ==
    LET data == getImageParticleData(url)
    IN  \A k \in 1..Len(particlesRef) :
            /\ particlesRef[k].sourcePosition = MappedSample(data, k).position
            /\ particlesRef[k].sourceBaseColor = MappedSample(data, k).color

\* the target data kept for the particles' target role (the trigger effect maps it
\* onto the particles when a morph starts) is the sampling of the image
TargetRoleReflects(url) ==
    /\ ~targetParticleDataRef.null
    /\ targetParticleDataRef.data = getImageParticleData(url)

\* C37: last request wins for image loads: once all loads have completed, the
\* source role of the particles and the target data their target role is mapped
\* from are those of the image requested last for the role (an image with
\* particles), whatever the order in which the loads completed.
C37_LastRequestWins ==
    (pending = {} /\ instancedMeshRef)
        => /\ Len(getImageParticleData(sourceImageUrl)) > 0
                => SourceRoleReflects(sourceImageUrl)
           /\ (targetImageUrl # "null" /\ Len(getImageParticleData(targetImageUrl)) > 0)
                => TargetRoleReflects(targetImageUrl)

====
